---- MODULE Spec2Model ----
(***************************************************************************)
(* Model of the AI-tool platform: the login form and its two-factor step,  *)
(* the hosted store's tables with their row-level-security policies, and   *)
(* the handlers of the tool list, the tool form, the admin panel and the   *)
(* rating widget.                                                          *)
(***************************************************************************)
EXTENDS Integers, Sequences, FiniteSets, TLC

VARIABLES
    \* ---- hosted auth provider and browser tab (AuthContext, LoginForm) ----
    authPassword,     \* auth.users: account id -> password that signs it in
    session,          \* AuthContext session: the signed-in account or NONE
    showTwoFactor,    \* LoginForm state
    twoFactorEmail,   \* LoginForm state
    issued,           \* side channel: email -> code most recently generated
    consumed,         \* email -> the issued code was used by a successful verify
    tempCount,        \* number of temporary passwords minted by verify-2fa
    lastAuth,         \* record of the last login-form handler that ran
    \* ---- persisted tables ----
    profiles,         \* profiles: id -> [role, two_factor_enabled]
    activity_logs,    \* activity_logs rows, in insertion order
    ai_tools,         \* ai_tools: id -> row
    nextToolId,       \* ids handed out so far + 1 (gen_random_uuid never repeats)
    tool_roles,       \* tool_roles rows: set of [tool_id, role]
    tool_ratings,     \* tool_ratings rows, in insertion order
    nextRatingId,
    tool_comments,    \* tool_comments rows, in insertion order
    nextCommentId,
    \* ---- one browser tab per signed-in actor (catalogue views) ----
    tools,            \* AIToolsList `tools`: actor -> (listed id -> created_by)
    adminTools,       \* AdminPanel `tools`: actor -> (listed id -> status)
    selectedTool,     \* AdminPanel rejection modal: actor -> tool id or 0
    lastRating,       \* record of the last rating click and what the store answered
    lastModeration,   \* record of the last moderation, rating or delete write
    \* ---- reference data and the in-memory cache of each tab (useCache) ----
    categories,       \* categories: the names stored
    cache,            \* SimpleCache of each actor's tab: key -> [data, timestamp, ttl]
    now,              \* Date.now(), in milliseconds
    lastGet,          \* record of the last cache lookup of a useCache hook
    lastAction,       \* record of the last handler that ran and what it did
    \* ---- handlers suspended at an await ----
    inflight,         \* actor -> the request the tab's handler is waiting on
    roleSets          \* tool id -> the role sets a create or edit has submitted

authVars == <<authPassword, session, showTwoFactor, twoFactorEmail, issued,
              consumed, tempCount, lastAuth>>
tableVars == <<ai_tools, nextToolId, tool_roles, tool_ratings, nextRatingId,
               tool_comments, nextCommentId>>
viewVars == <<tools, adminTools, selectedTool, lastRating, lastModeration>>
cacheVars == <<categories, cache, now, lastGet>>
awaitVars == <<inflight, roleSets>>
vars == <<authVars, profiles, activity_logs, tableVars, viewVars, cacheVars, lastAction,
         awaitVars>>

NONE == "none"

\* ---- bounds ----
MaxTemp == 2
MaxLog == 2
MaxTools == 1
MaxRatings == 3
MaxComments == 2
MaxClock == 300001

\* ---- accounts ----
UserIds == {"o1", "o2", "a", "b"}
Roles == {"owner", "backend", "frontend", "pm", "qa", "designer"}
SeedPassword == "password"

\* ---- characters and codes ----
Digits == {"0", "1", "2", "3", "4", "5", "6", "7", "8", "9"}
NoCode == <<>>

\* Math.floor(100000 + Math.random() * 900000).toString()
GeneratedCodes == { <<"1", "2", "3", "4", "5", "6">>, <<"6", "5", "4", "3", "2", "1">> }

\* what a user can type into the code field
RawCodeInputs ==
    { <<"1", "2", "3", "4", "5", "6">>,
      <<"6", "5", "4", "3", "2", "1">>,
      <<"9", "9", "9", "9", "9", "9">>,
      <<"1", "2", "a", "3", "4", "5", "6">>,
      <<"1", "2", "3", "4", "5">>,
      <<"6", "5", "4", "3", "2", "1", "0">> }

\* bodies a caller can post to verify-2fa
DirectCodeInputs ==
    { NoCode,
      <<"1", "2", "3", "4", "5", "6">>,
      <<"9", "9", "9", "9", "9", "9">>,
      <<"1", "2", "a", "4", "5", "6">> }

EmailInputs == {"o1", "a", "nobody"}
PasswordInputs == {SeedPassword, "wrong"}
AuthErrorMessages == {"Invalid login credentials", "TWO_FACTOR_REQUIRED"}

Min(x, y) == IF x < y THEN x ELSE y

\* e.target.value.replace(/\D/g, '').slice(0, 6)
SanitizeCode(raw) ==
    LET digitsOnly == SelectSeq(raw, LAMBDA c : c \in Digits)
    IN  SubSeq(digitsOnly, 1, Min(6, Len(digitsOnly)))

\* code.length !== 6 || !/^\d{6}$/.test(code)   (negated)
IsSixDigitCode(code) == Len(code) = 6 /\ \A i \in 1..Len(code) : code[i] \in Digits

TempPassword(n) == "temp_" \o ToString(n)

\* supabase.auth.signInWithPassword: succeeds iff the account exists and the
\* password is the stored one
SignInWithPasswordOk(email, password) ==
    email \in DOMAIN authPassword /\ authPassword[email] = password

\* verify-2fa edge function: HTTP status of the response
Verify2faStatus(email, code) ==
    IF email = "" \/ code = NoCode THEN 400
    ELSE IF ~IsSixDigitCode(code) THEN 400
    ELSE IF email \notin DOMAIN authPassword THEN 404
    ELSE 200

\* logActivity that lets the insert's error out
LogActivityRethrows(logOk) == ~logOk

\* useActivityLogger.logActivity: does the call throw into its caller? The
\* insert's error is thrown inside a try whose catch only prints it
LogActivityThrows(logOk) == FALSE

\* activity_logs insert: best effort, the outcome never reaches the caller
LogInsert(logOk, entry) ==
    IF logOk /\ Len(activity_logs) < MaxLog
    THEN Append(activity_logs, entry)
    ELSE activity_logs

TwoFactorEnabled(email) ==
    email \in DOMAIN profiles /\ profiles[email].two_factor_enabled

AuthRecord(op, email, code, ok, pwOk) ==
    [op |-> op, email |-> email, code |-> code, ok |-> ok, pwOk |-> pwOk,
     issuedBefore |-> IF email \in DOMAIN issued THEN issued[email] ELSE NoCode,
     consumedBefore |-> IF email \in DOMAIN consumed THEN consumed[email] ELSE FALSE,
     tfa |-> TwoFactorEnabled(email),
     \* the account whose password this login attempt has had accepted
     passwordStep |-> IF op = "handleSubmit" THEN (IF pwOk THEN email ELSE NONE)
                      ELSE IF op \in {"handleTwoFactorSubmit", "serveVerify2fa",
                                      "handleResendCode"}
                           THEN lastAuth.passwordStep
                           ELSE NONE,
     passwordBefore |-> IF email \in DOMAIN authPassword THEN authPassword[email] ELSE NONE]

\* ---------------------------------------------------------------------------
\* SimpleCache (useCache.ts): one module-level instance per browser tab
\* ---------------------------------------------------------------------------
CacheKeys == {"categories", "dashboard-stats"}
NoEntries == << >>

\* set(key, data, ttlSeconds = 300)
DefaultTtlSeconds == 300
\* useCache('categories', ..., { ttl: 300 }), useCache('dashboard-stats', ..., { ttl: 60 })
CategoriesTtlSeconds == 300
DashboardStatsTtlSeconds == 60

TtlSecondsOf(key) ==
    IF key = "categories" THEN CategoriesTtlSeconds
    ELSE IF key = "dashboard-stats" THEN DashboardStatsTtlSeconds
    ELSE DefaultTtlSeconds

\* SimpleCache.set: { data, timestamp: Date.now(), ttl: ttlSeconds * 1000 }
CacheSet(c, key, data, ttlSeconds, t) ==
    (key :> [data |-> data, timestamp |-> t, ttl |-> ttlSeconds * 1000]) @@ c

\* now - entry.timestamp > entry.ttl
CacheExpired(entry, t) == t - entry.timestamp > entry.ttl

\* SimpleCache.has: the answer, and the map after the call
CacheHas(c, key, t) == key \in DOMAIN c /\ ~CacheExpired(c[key], t)

\* SimpleCache.get: the value returned, or null
CacheGet(c, key, t) ==
    IF key \notin DOMAIN c THEN [null |-> TRUE]
    ELSE IF CacheExpired(c[key], t) THEN [null |-> TRUE]
    ELSE [null |-> FALSE, data |-> c[key].data]

\* the map after has(key) or get(key): an expired entry is deleted
CacheAfterLookup(c, key, t) ==
    IF key \in DOMAIN c /\ CacheExpired(c[key], t)
    THEN [k \in DOMAIN c \ {key} |-> c[k]]
    ELSE c

\* SimpleCache.clear, reached by invalidatePattern(any pattern) and clearAll
CacheClear(c) == NoEntries

\* what a lookup found and what it answered
NoGet ==
    [actor |-> NONE, key |-> NONE, present |-> FALSE, age |-> 0, ttl |-> 0,
     hit |-> FALSE, kept |-> FALSE]

\* ---------------------------------------------------------------------------
\* Login form (LoginForm) over AuthContext and the two edge functions
\* ---------------------------------------------------------------------------

\* a login row that reports every account as protected by a second factor
LoginEntryAlwaysTwoFactor(email, tfa) ==
    [user_id |-> email, action |-> "login", resource_type |-> "auth",
     resource_id |-> NONE, has_2fa |-> TRUE]

\* the row signIn inserts: details.has_2fa = profileData?.two_factor_enabled || false
LoginEntry(email, tfa) ==
    [user_id |-> email, action |-> "login", resource_type |-> "auth",
     resource_id |-> NONE, has_2fa |-> tfa]

\* LoginForm.handleSubmit -> AuthContext.signIn
handleSubmit(email, password, message, code, logOk) ==
    /\ session = NONE
    /\ ~showTwoFactor
    /\ LET pwOk == SignInWithPasswordOk(email, password)
           tfa == TwoFactorEnabled(email)
       IN  IF pwOk
           THEN \* signInWithPassword set the session (onAuthStateChange);
                \* App renders Dashboard, LoginForm and its state are dropped
                /\ session' = email
                /\ showTwoFactor' = FALSE
                /\ twoFactorEmail' = ""
                /\ IF tfa
                   THEN /\ issued' = [issued EXCEPT ![email] = code]
                        /\ consumed' = [consumed EXCEPT ![email] = FALSE]
                   ELSE UNCHANGED <<issued, consumed>>
                /\ activity_logs' = LogInsert(logOk, LoginEntry(email, tfa))
                /\ lastAuth' = AuthRecord("handleSubmit", email, NoCode, TRUE, TRUE)
           ELSE \* signIn returns { error: authError }
                /\ IF message = "TWO_FACTOR_REQUIRED"
                   THEN /\ twoFactorEmail' = email
                        /\ showTwoFactor' = TRUE
                   ELSE UNCHANGED <<twoFactorEmail, showTwoFactor>>
                /\ lastAuth' = AuthRecord("handleSubmit", email, NoCode, FALSE, FALSE)
                /\ UNCHANGED <<session, issued, consumed, activity_logs>>
    /\ UNCHANGED <<cacheVars, awaitVars, authPassword, tempCount, profiles, tableVars, viewVars>>

\* LoginForm.handleTwoFactorSubmit -> AuthContext.verifyTwoFactor -> verify-2fa
handleTwoFactorSubmit(raw) ==
    /\ session = NONE
    /\ showTwoFactor
    /\ LET code == SanitizeCode(raw)
           email == twoFactorEmail
       IN  /\ Len(code) = 6            \* submit button disabled otherwise
           /\ IF Verify2faStatus(email, code) = 200
              THEN /\ tempCount < MaxTemp
                   \* updateUserById(user.id, { password: tempPassword })
                   /\ authPassword' = [authPassword EXCEPT ![email] = TempPassword(tempCount + 1)]
                   /\ tempCount' = tempCount + 1
                   \* signInWithPassword({ email, password: data.tempPassword })
                   /\ session' = email
                   /\ showTwoFactor' = FALSE
                   /\ twoFactorEmail' = ""
                   /\ consumed' = [consumed EXCEPT ![email] = TRUE]
                   /\ lastAuth' = AuthRecord("handleTwoFactorSubmit", email, code, TRUE, FALSE)
              ELSE /\ lastAuth' = AuthRecord("handleTwoFactorSubmit", email, code, FALSE, FALSE)
                   /\ UNCHANGED <<authPassword, tempCount, session, showTwoFactor,
                                  twoFactorEmail, consumed>>
    /\ UNCHANGED <<cacheVars, awaitVars, lastAction, issued, profiles, activity_logs, tableVars, viewVars>>

\* verify-2fa edge function called directly (its CORS headers allow any origin
\* and it reads nothing but the JSON body)
serveVerify2fa(email, code) ==
    /\ IF Verify2faStatus(email, code) = 200
       THEN /\ tempCount < MaxTemp
            /\ authPassword' = [authPassword EXCEPT ![email] = TempPassword(tempCount + 1)]
            /\ tempCount' = tempCount + 1
            /\ consumed' = [consumed EXCEPT ![email] = TRUE]
            /\ lastAuth' = AuthRecord("serveVerify2fa", email, code, TRUE, FALSE)
       ELSE /\ lastAuth' = AuthRecord("serveVerify2fa", email, code, FALSE, FALSE)
            /\ UNCHANGED <<authPassword, tempCount, consumed>>
    /\ UNCHANGED <<cacheVars, awaitVars, lastAction, session, showTwoFactor, twoFactorEmail, issued, profiles,
                   activity_logs, tableVars, viewVars>>

\* LoginForm.handleResendCode -> AuthContext.resendTwoFactorCode -> send-2fa-code
handleResendCode(code) ==
    /\ session = NONE
    /\ showTwoFactor
    /\ IF twoFactorEmail # ""
       THEN /\ issued' = [issued EXCEPT ![twoFactorEmail] = code]
            /\ consumed' = [consumed EXCEPT ![twoFactorEmail] = FALSE]
       ELSE UNCHANGED <<issued, consumed>>
    /\ lastAuth' = AuthRecord("handleResendCode", twoFactorEmail, code, twoFactorEmail # "", FALSE)
    /\ UNCHANGED <<cacheVars, awaitVars, lastAction, authPassword, session, showTwoFactor, twoFactorEmail, tempCount,
                   profiles, activity_logs, tableVars, viewVars>>

\* LoginForm "back" button of the code step
cancelTwoFactor ==
    /\ session = NONE
    /\ showTwoFactor
    /\ showTwoFactor' = FALSE
    /\ twoFactorEmail' = ""
    /\ lastAuth' = AuthRecord("cancel", twoFactorEmail, NoCode, TRUE, FALSE)
    /\ UNCHANGED <<cacheVars, awaitVars, lastAction, authPassword, session, issued, consumed, tempCount, profiles,
                   activity_logs, tableVars, viewVars>>

\* AuthContext.signOut
signOut ==
    /\ session # NONE
    /\ session' = NONE
    /\ cache' = [cache EXCEPT ![session] = CacheClear(@)]
    /\ lastAuth' = AuthRecord("signOut", session, NoCode, TRUE, FALSE)
    /\ UNCHANGED <<categories, now, lastGet, inflight, roleSets, lastAction, authPassword, showTwoFactor, twoFactorEmail, issued, consumed,
                   tempCount, profiles, activity_logs, tableVars, viewVars>>

\* record of the last write to the moderation columns of an ai_tools row
NoModeration ==
    [op |-> "init", actor |-> NONE, tool |-> 0, ok |-> FALSE,
     prevStatus |-> NONE, prevApprovedBy |-> NONE]

\* the categories the migration inserts (two of the seven kept)
SeedCategories == { <<"a", "r", "t">>, <<"c", "o", "d", "e">> }

\* no handler of the tab is suspended
NoAwait == [op |-> "none", tool |-> 0, roles |-> {}, key |-> NONE]

\* the handlers of the application send the row their form builds
NoRequest == [created_by |-> NONE, status |-> NONE]

\* nothing has run yet
NoAction ==
    [actor |-> NONE, action |-> "init", logOk |-> FALSE, accepted |-> FALSE,
     stored |-> FALSE, completed |-> FALSE, hadEntries |-> FALSE, cleared |-> FALSE, steps |-> << >>,
     request |-> NoRequest]

NoRating == [actor |-> NONE, tool |-> 0, rating |-> 0, hadRow |-> FALSE, ok |-> FALSE]

\* no tool submitted yet, no view loaded
\* nothing rated, commented, listed, cached or recorded yet
NoDependents ==
    /\ tool_roles = {}
    /\ tool_ratings = << >>
    /\ nextRatingId = 1
    /\ tool_comments = << >>
    /\ nextCommentId = 1
    /\ tools = [u \in UserIds |-> << >>]
    /\ adminTools = [u \in UserIds |-> << >>]
    /\ selectedTool = [u \in UserIds |-> 0]
    /\ lastRating = NoRating
    /\ lastModeration = NoModeration
    /\ categories = SeedCategories
    /\ cache = [u \in UserIds |-> NoEntries]
    /\ now = 0
    /\ lastGet = NoGet
    /\ inflight = [u \in UserIds |-> NoAwait]
    /\ roleSets = << >>
    /\ lastAction = NoAction

EmptyCatalogue ==
    /\ ai_tools = << >>
    /\ nextToolId = 1
    /\ NoDependents

AuthInit ==
    /\ profiles = [u \in {"o1", "a"} |->
                      IF u = "o1" THEN [role |-> "owner", two_factor_enabled |-> FALSE]
                                  ELSE [role |-> "frontend", two_factor_enabled |-> TRUE]]
    /\ authPassword = [u \in {"o1", "a"} |-> SeedPassword]
    /\ session = NONE
    /\ showTwoFactor = FALSE
    /\ twoFactorEmail = ""
    /\ issued = [e \in EmailInputs |-> NoCode]
    /\ consumed = [e \in EmailInputs |-> FALSE]
    /\ tempCount = 0
    /\ lastAuth = AuthRecord("init", "", NoCode, FALSE, FALSE)
    /\ activity_logs = <<>>
    /\ EmptyCatalogue

AuthNext ==
    \/ \E email \in EmailInputs,
          password \in PasswordInputs \cup {TempPassword(n) : n \in 1..MaxTemp},
          message \in AuthErrorMessages, code \in GeneratedCodes, logOk \in BOOLEAN :
          handleSubmit(email, password, message, code, logOk) /\ UNCHANGED lastAction
    \/ \E raw \in RawCodeInputs : handleTwoFactorSubmit(raw)
    \/ \E email \in {"a", "nobody", ""}, code \in DirectCodeInputs :
          serveVerify2fa(email, code)
    \/ \E code \in GeneratedCodes : handleResendCode(code)
    \/ cancelTwoFactor
    \/ signOut

SpecAuth == AuthInit /\ [][AuthNext]_vars


\* ---------------------------------------------------------------------------
\* Tables of the hosted store and their row-level-security policies
\* ---------------------------------------------------------------------------
NULL == NONE
Statuses == {"pending", "approved", "rejected"}
NameInputs == {"Foo", "Bar"}
RoleSetInputs == { {}, {"frontend"}, {"frontend", "backend"} }
ReasonInputs == {"", "duplicate"}
\* AdminPanel.confirmReject: rejectionReason || <fixed text>
DefaultRejectionReason == "no reason given"
StarValues == {3, 5}

IsOwner(uid) == uid \in DOMAIN profiles /\ profiles[uid].role = "owner"

\* policy "Users can read approved tools and own tools" (SELECT on ai_tools)
RlsSelectAiTools(uid, row) ==
    row.status = "approved" \/ row.created_by = uid \/ IsOwner(uid)

\* the INSERT policy of the first schema, "Anyone can create ai_tools"
RlsInsertAiToolsAnyStatus(uid, row) == row.created_by = uid

\* policy "Users can create tools (pending approval)" (INSERT on ai_tools)
RlsInsertAiTools(uid, row) == row.created_by = uid /\ row.status = "pending"

\* policy "Creator and owners can update tools" (UPDATE on ai_tools)
RlsUpdateAiTools(uid, row) == row.created_by = uid \/ IsOwner(uid)

\* policy "Creator and owners can delete tools" (DELETE on ai_tools)
RlsDeleteAiTools(uid, row) == row.created_by = uid \/ IsOwner(uid)

\* policies "Tool creator can manage tool_roles", "Owners can manage all tool_roles"
RlsManageToolRoles(uid, table, tool_id) ==
    (tool_id \in DOMAIN table /\ table[tool_id].created_by = uid) \/ IsOwner(uid)

\* policy "Users can read all ratings for approved tools"
RlsSelectToolRatings(table, row) ==
    row.tool_id \in DOMAIN table /\ table[row.tool_id].status = "approved"

\* policy "Users can insert their own ratings"
RlsInsertToolRatings(uid, row) == uid = row.user_id

\* policy "Users can read all comments for approved tools"
RlsSelectToolComments(table, row) ==
    row.tool_id \in DOMAIN table /\ table[row.tool_id].status = "approved"

\* policy "Users can insert their own comments"
RlsInsertToolComments(uid, row) == uid = row.user_id

\* a function without the key k
Without(f, k) == [x \in DOMAIN f \ {k} |-> f[x]]

\* tool_ratings with a foreign key that does not cascade
CascadeRatingsKeepsRows(rows, t) == rows

\* DELETE FROM ai_tools WHERE id = t: the foreign keys of tool_roles,
\* tool_ratings and tool_comments are ON DELETE CASCADE
CascadeRoles(rows, t) == {r \in rows : r.tool_id # t}
CascadeRatings(rows, t) == SelectSeq(rows, LAMBDA r : r.tool_id # t)
CascadeComments(rows, t) == SelectSeq(rows, LAMBDA r : r.tool_id # t)

\* ---------------------------------------------------------------------------
\* Reads of the tool list (AIToolsList.fetchTools)
\* ---------------------------------------------------------------------------

\* the filter with the created_by clause left out
ClientToolsFilterApprovedOnly(uid, row) ==
    IF IsOwner(uid) THEN TRUE
    ELSE row.status = "approved"

\* owner: no filter; otherwise .or(`status.eq.approved,created_by.eq.${user?.id}`)
ClientToolsFilter(uid, row) ==
    IF IsOwner(uid) THEN TRUE
    ELSE row.status = "approved" \/ row.created_by = uid

\* the rows the query returns: the client's filter on top of the SELECT policy
FetchTools(uid, table) ==
    {t \in DOMAIN table : ClientToolsFilter(uid, table[t]) /\ RlsSelectAiTools(uid, table[t])}

\* AIToolsList `tools` after setTools(toolsWithStats)
ListedTools(uid, table) == [t \in FetchTools(uid, table) |-> table[t].created_by]

\* from('tool_ratings').select('rating').eq('tool_id', tool.id)
ReadRatings(table, ratings, t) ==
    SelectSeq(ratings, LAMBDA r : r.tool_id = t /\ RlsSelectToolRatings(table, r))

\* from('tool_comments').select('*', { count: 'exact', head: true }).eq('tool_id', tool.id)
CountComments(table, comments, t) ==
    Len(SelectSeq(comments, LAMBDA c : c.tool_id = t /\ RlsSelectToolComments(table, c)))

\* ratings.reduce((sum, r) => sum + r.rating, 0)
RECURSIVE ReduceSum(_)
ReduceSum(ratings) ==
    IF ratings = << >> THEN 0
    ELSE ReduceSum(SubSeq(ratings, 1, Len(ratings) - 1)) + ratings[Len(ratings)].rating

\* the mean cut to a whole number
AverageRatingWhole(ratings) ==
    IF Len(ratings) > 0
    THEN [num |-> ReduceSum(ratings) \div Len(ratings), den |-> 1]
    ELSE [num |-> 0, den |-> 1]

\* ratings.length > 0 ? sum / ratings.length : 0   (kept as a fraction)
AverageRating(ratings) ==
    IF Len(ratings) > 0
    THEN [num |-> ReduceSum(ratings), den |-> Len(ratings)]
    ELSE [num |-> 0, den |-> 1]

\* the statistics fetchTools attaches to a tool
ToolStats(table, ratings, comments, t) ==
    [total_comments |-> CountComments(table, comments, t),
     total_ratings |-> Len(ReadRatings(table, ratings, t)),
     average_rating |-> AverageRating(ReadRatings(table, ratings, t))]

\* AIToolsList.canEditTool, on the listed snapshot
canEditTool(uid, created_by) == created_by = uid \/ IsOwner(uid)

\* what the row held just before a moderation write
ModerationRecord(op, actor, t, ok) ==
    [op |-> op, actor |-> actor, tool |-> t, ok |-> ok,
     prevStatus |-> IF t \in DOMAIN ai_tools THEN ai_tools[t].status ELSE NONE,
     prevApprovedBy |-> IF t \in DOMAIN ai_tools THEN ai_tools[t].approved_by ELSE NONE]

\* ---------------------------------------------------------------------------
\* Tool list, tool form, rating widget, comment box (one signed-in actor each)
\* ---------------------------------------------------------------------------
Whitespace == {" "}
CommentInputs == { << >>, <<" ">>, <<" ", "h", "i", " ">>, <<"h", "i">> }

\* String.prototype.trim
RECURSIVE Trim(_)
Trim(str) ==
    IF str = << >> THEN str
    ELSE IF Head(str) \in Whitespace THEN Trim(Tail(str))
    ELSE IF str[Len(str)] \in Whitespace THEN Trim(SubSeq(str, 1, Len(str) - 1))
    ELSE str

\* AIToolsList.fetchTools (mount, or the refresh button of a handler)
fetchTools(uid) ==
    /\ uid \in DOMAIN profiles
    /\ tools' = [tools EXCEPT ![uid] = ListedTools(uid, ai_tools)]
    /\ UNCHANGED <<cacheVars, awaitVars, lastAction, authVars, profiles, activity_logs, tableVars, adminTools, selectedTool,
                   lastRating, lastModeration>>

\* the row AIToolForm.handleSubmit inserts
NewToolRow(uid, name) ==
    [name |-> name, status |-> "pending", created_by |-> uid,
     approved_by |-> NULL, approved_at |-> NULL, rejection_reason |-> NULL]

\* tool_roles after "delete existing roles, insert new roles", each statement
\* filtered by the tool_roles policies
ReplaceRoles(uid, table, rows, t, roles) ==
    IF RlsManageToolRoles(uid, table, t)
    THEN {r \in rows : r.tool_id # t} \cup {[tool_id |-> t, role |-> ro] : ro \in roles}
    ELSE rows

\* AIToolForm.handleSubmit without `tool`: create
handleSubmitCreate(uid, name, roles, logOk) ==
    /\ uid \in DOMAIN profiles
    /\ nextToolId <= MaxTools
    /\ LET t == nextToolId
           row == NewToolRow(uid, name)
       IN  /\ RlsInsertAiTools(uid, row)
           /\ ai_tools' = (t :> row) @@ ai_tools
           /\ nextToolId' = t + 1
           /\ tool_roles' = ReplaceRoles(uid, ai_tools', tool_roles, t, roles)
           /\ activity_logs' = LogInsert(logOk,
                  [user_id |-> uid, action |-> "create_tool",
                   resource_type |-> "ai_tool", resource_id |-> ToString(t)])
           /\ IF LogActivityThrows(logOk)
              THEN \* catch: error toast, the form stays open
                   UNCHANGED <<cache, tools>>
              ELSE \* invalidatePattern x2, onSave() = fetchTools
                   /\ cache' = [cache EXCEPT ![uid] = CacheClear(@)]
                   /\ tools' = [tools EXCEPT ![uid] = ListedTools(uid, ai_tools')]
    /\ UNCHANGED <<categories, now, lastGet, inflight, roleSets, authVars, profiles, tool_ratings, nextRatingId, tool_comments, nextCommentId,
                   adminTools, selectedTool, lastRating, lastModeration>>

\* row with the columns of `patch` overwritten
ApplyPatch(row, patch) ==
    [f \in DOMAIN row |-> IF f \in DOMAIN patch THEN patch[f] ELSE row[f]]

\* an update that also sends the tool back to review
EditPatchResetsStatus(name) == [name |-> name, status |-> "pending"]

\* the columns the update branch of AIToolForm.handleSubmit sends: name,
\* description, category_id, the three urls, difficulty_level, pricing_model,
\* tags (name stands for them)
EditPatch(name) == [name |-> name]

\* AIToolForm.handleSubmit with `tool`: edit of a listed tool
handleSubmitEdit(uid, t, name, roles, logOk) ==
    /\ uid \in DOMAIN profiles
    /\ t \in DOMAIN tools[uid]
    /\ canEditTool(uid, tools[uid][t])
    /\ IF t \in DOMAIN ai_tools /\ RlsUpdateAiTools(uid, ai_tools[t])
       THEN /\ ai_tools' = [ai_tools EXCEPT ![t] = ApplyPatch(@, EditPatch(name))]
            /\ tool_roles' = ReplaceRoles(uid, ai_tools', tool_roles, t, roles)
            /\ activity_logs' = LogInsert(logOk,
                   [user_id |-> uid, action |-> "update_tool",
                    resource_type |-> "ai_tool", resource_id |-> ToString(t)])
            /\ IF LogActivityThrows(logOk)
               THEN UNCHANGED <<cache, tools>>
               ELSE /\ cache' = [cache EXCEPT ![uid] = CacheClear(@)]
                    /\ tools' = [tools EXCEPT ![uid] = ListedTools(uid, ai_tools')]
       ELSE \* .single() finds no row: the handler throws before anything else
            UNCHANGED <<ai_tools, tool_roles, activity_logs, tools, cache>>
    /\ UNCHANGED <<categories, now, lastGet, inflight, roleSets, authVars, profiles, nextToolId, tool_ratings, nextRatingId, tool_comments,
                   nextCommentId, adminTools, selectedTool, lastRating, lastModeration>>

\* ---- the update branch of AIToolForm.handleSubmit, await by await ----
\* roles the table holds for a tool
RolesOf(rows, t) == {r.role : r \in {x \in rows : x.tool_id = t}}

\* from('tool_roles').delete().eq('tool_id', toolData.id)
DeleteRoles(uid, table, rows, t) ==
    IF RlsManageToolRoles(uid, table, t)
    THEN {r \in rows : r.tool_id # t}
    ELSE rows

\* from('tool_roles').insert(roleInserts) is one statement: the policy, the
\* foreign key to ai_tools and UNIQUE(tool_id, role) accept all rows or none;
\* `sent` is whether the request reached the store
InsertRolesOk(uid, table, rows, t, roles, sent) ==
    /\ sent
    /\ RlsManageToolRoles(uid, table, t)
    /\ t \in DOMAIN table
    /\ \A ro \in roles : [tool_id |-> t, role |-> ro] \notin rows

InsertRoles(uid, table, rows, t, roles, sent) ==
    IF roles # {} /\ InsertRolesOk(uid, table, rows, t, roles, sent)
    THEN rows \cup {[tool_id |-> t, role |-> ro] : ro \in roles}
    ELSE rows

\* another tab is between its delete and its insert for the same tool
OtherEditInFlight(uid, t) ==
    \E u \in UserIds \ {uid} : inflight[u].op = "insert_roles" /\ inflight[u].tool = t

\* handleSubmit up to and including `await ... delete().eq('tool_id', ...)`
submitEditBegin(uid, t, name, roles) ==
    /\ uid \in DOMAIN profiles
    /\ inflight[uid] = NoAwait
    /\ t \in DOMAIN tools[uid]
    /\ canEditTool(uid, tools[uid][t])
    /\ t \in DOMAIN ai_tools
    /\ RlsUpdateAiTools(uid, ai_tools[t])
    /\ ai_tools' = [ai_tools EXCEPT ![t] = ApplyPatch(@, EditPatch(name))]
    /\ tool_roles' = DeleteRoles(uid, ai_tools', tool_roles, t)
    /\ inflight' = [inflight EXCEPT ![uid] =
                       [op |-> "insert_roles", tool |-> t, roles |-> roles, key |-> NONE]]
    /\ roleSets' = (t :> (IF OtherEditInFlight(uid, t)
                          THEN roleSets[t] \cup {roles}
                          ELSE {RolesOf(tool_roles, t), roles})) @@ roleSets
    /\ UNCHANGED <<cacheVars, lastAction, authVars, profiles, activity_logs, nextToolId,
                   tool_ratings, nextRatingId, tool_comments, nextCommentId,
                   viewVars>>

\* the rest of handleSubmit: the insert, whose error nobody reads, logActivity,
\* invalidatePattern x2, onSave() = fetchTools, onClose()
submitEditFinish(uid, sent, logOk) ==
    /\ inflight[uid].op = "insert_roles"
    /\ LET t == inflight[uid].tool
           roles == inflight[uid].roles
       IN  /\ tool_roles' = InsertRoles(uid, ai_tools, tool_roles, t, roles, sent)
           /\ activity_logs' = LogInsert(logOk,
                  [user_id |-> uid, action |-> "update_tool",
                   resource_type |-> "ai_tool", resource_id |-> ToString(t)])
    /\ cache' = [cache EXCEPT ![uid] = CacheClear(@)]
    /\ tools' = [tools EXCEPT ![uid] = ListedTools(uid, ai_tools)]
    /\ inflight' = [inflight EXCEPT ![uid] = NoAwait]
    /\ UNCHANGED <<categories, now, lastGet, roleSets, lastAction, authVars, profiles,
                   ai_tools, nextToolId, tool_ratings, nextRatingId, tool_comments,
                   nextCommentId, adminTools, selectedTool, lastRating, lastModeration>>

\* the three tables after DELETE FROM ai_tools WHERE id = t, under the policy
DeleteTool(uid, t) ==
    IF t \in DOMAIN ai_tools /\ RlsDeleteAiTools(uid, ai_tools[t])
    THEN /\ ai_tools' = Without(ai_tools, t)
         /\ tool_roles' = CascadeRoles(tool_roles, t)
         /\ tool_ratings' = CascadeRatings(tool_ratings, t)
         /\ tool_comments' = CascadeComments(tool_comments, t)
    ELSE UNCHANGED <<ai_tools, tool_roles, tool_ratings, tool_comments>>

\* AIToolsList.handleDelete (confirm() answered yes)
handleDelete(uid, t, logOk) ==
    /\ uid \in DOMAIN profiles
    /\ t \in DOMAIN tools[uid]
    /\ canEditTool(uid, tools[uid][t])
    /\ DeleteTool(uid, t)
    /\ activity_logs' = LogInsert(logOk,
           [user_id |-> uid, action |-> "delete_tool",
            resource_type |-> "ai_tool", resource_id |-> ToString(t)])
    /\ IF LogActivityThrows(logOk)
       THEN UNCHANGED <<cache, tools>>
       ELSE /\ cache' = [cache EXCEPT ![uid] = CacheClear(@)]
            /\ tools' = [tools EXCEPT ![uid] = ListedTools(uid, ai_tools')]
    /\ UNCHANGED <<categories, now, lastGet, inflight, roleSets, authVars, profiles, nextToolId, nextRatingId, nextCommentId, adminTools,
                   selectedTool, lastRating, lastModeration>>

\* a ratings table without CHECK (rating >= 1 AND rating <= 5)
UpsertRatingOkAnyValue(uid, table, rows, payload) ==
    /\ payload.tool_id \in DOMAIN table
    /\ RlsInsertToolRatings(uid, payload)
    /\ ~\E i \in 1..Len(rows) :
           rows[i].tool_id = payload.tool_id /\ rows[i].user_id = payload.user_id

\* supabase.from('tool_ratings').upsert({tool_id, user_id, rating}): no
\* onConflict is given, so the conflict target is the primary key `id`; the
\* payload carries no id, the column default makes a fresh one, and the row
\* goes down the insert path, where the foreign key, the CHECK on rating, the
\* INSERT policy and UNIQUE(tool_id, user_id) decide
UpsertRatingOk(uid, table, rows, payload) ==
    /\ payload.tool_id \in DOMAIN table
    /\ payload.rating >= 1 /\ payload.rating <= 5
    /\ RlsInsertToolRatings(uid, payload)
    /\ ~\E i \in 1..Len(rows) :
           rows[i].tool_id = payload.tool_id /\ rows[i].user_id = payload.user_id

\* what a rating click sent and what the store answered
RatingRecord(uid, t, rating) ==
    [actor |-> uid, tool |-> t, rating |-> rating,
     ok |-> UpsertRatingOk(uid, ai_tools, tool_ratings,
                           [tool_id |-> t, user_id |-> uid, rating |-> rating]),
     hadRow |-> \E i \in 1..Len(tool_ratings) :
                   tool_ratings[i].tool_id = t /\ tool_ratings[i].user_id = uid]

\* ToolRating.handleRatingClick; lastRating is left to the specification
handleRatingClick(uid, t, rating) ==
    /\ uid \in DOMAIN profiles
    /\ t \in DOMAIN tools[uid]
    /\ LET payload == [tool_id |-> t, user_id |-> uid, rating |-> rating]
           ok == UpsertRatingOk(uid, ai_tools, tool_ratings, payload)
       IN  /\ ok => nextRatingId <= MaxRatings
           /\ IF ok
              THEN \* id uuid DEFAULT gen_random_uuid()
                   /\ tool_ratings' = Append(tool_ratings,
                          [id |-> nextRatingId, tool_id |-> t, user_id |-> uid,
                           rating |-> rating])
                   /\ nextRatingId' = nextRatingId + 1
                   /\ tools' = [tools EXCEPT ![uid] = ListedTools(uid, ai_tools)]
              ELSE \* console.error('Error submitting rating:', error)
                   UNCHANGED <<tool_ratings, nextRatingId, tools>>
    /\ UNCHANGED <<cacheVars, awaitVars, authVars, profiles, activity_logs, ai_tools, nextToolId, tool_roles,
                   tool_comments, nextCommentId, adminTools, selectedTool, lastModeration>>

\* the text as typed
CommentContentAsTyped(raw) == raw

\* content: newComment.trim() / editContent.trim()
CommentContent(raw) == Trim(raw)

\* policy "Users can update their own comments", extended to owners
RlsUpdateToolCommentsAndOwners(uid, row) == uid = row.user_id \/ IsOwner(uid)

\* policy "Users can update their own comments" (USING and WITH CHECK)
RlsUpdateToolComments(uid, row) == uid = row.user_id

\* policies "Users can delete their own comments", "Owners can delete any comment"
RlsDeleteToolComments(uid, row) == uid = row.user_id \/ IsOwner(uid)

\* ToolComments.canEditComment: shows the edit and the delete button
canEditComment(uid, row) == row.user_id = uid \/ IsOwner(uid)

\* the comment is in the list the widget of a listed tool shows
CommentShown(uid, c) ==
    \E i \in 1..Len(tool_comments) :
        /\ tool_comments[i].id = c
        /\ tool_comments[i].tool_id \in DOMAIN tools[uid]
        /\ RlsSelectToolComments(ai_tools, tool_comments[i])
        /\ canEditComment(uid, tool_comments[i])

\* from('tool_comments').update({ content }).eq('id', c): rows the policy
\* hides are not matched, which is no error
UpdateComment(uid, rows, c, content) ==
    [i \in 1..Len(rows) |->
        IF rows[i].id = c /\ RlsUpdateToolComments(uid, rows[i])
        THEN [rows[i] EXCEPT !.content = content]
        ELSE rows[i]]

\* from('tool_comments').delete().eq('id', c)
DeleteComment(uid, rows, c) ==
    SelectSeq(rows, LAMBDA r : ~(r.id = c /\ RlsDeleteToolComments(uid, r)))

\* ToolComments.handleSubmitComment
handleSubmitComment(uid, t, raw) ==
    /\ uid \in DOMAIN profiles
    /\ t \in DOMAIN tools[uid]
    /\ LET row == [id |-> nextCommentId, tool_id |-> t, user_id |-> uid,
                   content |-> CommentContent(raw)]
           \* if (!user || !newComment.trim() || submitting) return
           ok == Trim(raw) # << >> /\ t \in DOMAIN ai_tools /\ RlsInsertToolComments(uid, row)
       IN  /\ ok => nextCommentId <= MaxComments
           /\ IF ok
              THEN /\ tool_comments' = Append(tool_comments, row)
                   /\ nextCommentId' = nextCommentId + 1
                   /\ tools' = [tools EXCEPT ![uid] = ListedTools(uid, ai_tools)]
              ELSE UNCHANGED <<tool_comments, nextCommentId, tools>>
    /\ UNCHANGED <<cacheVars, awaitVars, authVars, profiles, activity_logs, ai_tools, nextToolId, tool_roles,
                   tool_ratings, nextRatingId, adminTools, selectedTool, lastRating,
                   lastModeration>>

\* ToolComments.handleEditComment
handleEditComment(uid, c, raw) ==
    /\ uid \in DOMAIN profiles
    /\ CommentShown(uid, c)
    /\ tool_comments' = IF Trim(raw) = << >>
                        THEN \* if (!editContent.trim() || submitting) return
                             tool_comments
                        ELSE UpdateComment(uid, tool_comments, c, CommentContent(raw))
    /\ UNCHANGED <<cacheVars, awaitVars, authVars, profiles, activity_logs, ai_tools, nextToolId,
                   tool_roles, tool_ratings, nextRatingId, nextCommentId, viewVars>>

\* ToolComments.handleDeleteComment, confirmed in the dialog
handleDeleteComment(uid, c) ==
    /\ uid \in DOMAIN profiles
    /\ CommentShown(uid, c)
    /\ tool_comments' = DeleteComment(uid, tool_comments, c)
    /\ tools' = [tools EXCEPT ![uid] = ListedTools(uid, ai_tools)]
    /\ UNCHANGED <<cacheVars, awaitVars, authVars, profiles, activity_logs, ai_tools, nextToolId,
                   tool_roles, tool_ratings, nextRatingId, nextCommentId, adminTools,
                   selectedTool, lastRating, lastModeration>>

\* the same update and delete sent to the REST endpoint by any signed-in actor
storeUpdateComment(uid, c, content) ==
    /\ uid \in DOMAIN profiles
    /\ tool_comments' = UpdateComment(uid, tool_comments, c, content)
    /\ UNCHANGED <<cacheVars, awaitVars, authVars, profiles, activity_logs, ai_tools, nextToolId,
                   tool_roles, tool_ratings, nextRatingId, nextCommentId, viewVars>>

storeDeleteComment(uid, c) ==
    /\ uid \in DOMAIN profiles
    /\ tool_comments' = DeleteComment(uid, tool_comments, c)
    /\ UNCHANGED <<cacheVars, awaitVars, authVars, profiles, activity_logs, ai_tools, nextToolId,
                   tool_roles, tool_ratings, nextRatingId, nextCommentId, viewVars>>

\* ---------------------------------------------------------------------------
\* Admin panel (AdminPanel), rendered for a profile whose role is owner
\* ---------------------------------------------------------------------------

\* AdminPanel `tools` after fetchTools: every row the SELECT policy lets through
AdminListedTools(uid, table) ==
    [t \in {x \in DOMAIN table : RlsSelectAiTools(uid, table[x])} |-> table[t].status]

\* the update handleApprove sends
ApprovePatch(uid) ==
    [status |-> "approved", approved_by |-> uid, approved_at |-> "now",
     rejection_reason |-> NULL]

\* the rejection update without the moderator columns
RejectPatchKeepsModerator(uid, reason) ==
    [status |-> "rejected",
     rejection_reason |-> IF reason # "" THEN reason ELSE DefaultRejectionReason]

\* the update confirmReject sends
RejectPatch(uid, reason) ==
    [status |-> "rejected", approved_by |-> uid, approved_at |-> "now",
     rejection_reason |-> IF reason # "" THEN reason ELSE DefaultRejectionReason]

\* UPDATE ai_tools SET patch WHERE id = t, under the UPDATE policy (its USING
\* expression is also the check on the new row); no row matched is no error
UpdateMatches(uid, table, t, patch) ==
    /\ t \in DOMAIN table
    /\ RlsUpdateAiTools(uid, table[t])
    /\ RlsUpdateAiTools(uid, ApplyPatch(table[t], patch))

UpdateTool(uid, table, t, patch) ==
    IF UpdateMatches(uid, table, t, patch)
    THEN [table EXCEPT ![t] = ApplyPatch(table[t], patch)]
    ELSE table

\* AdminPanel.fetchTools (useEffect on profile)
adminFetchTools(uid) ==
    /\ IsOwner(uid)
    /\ adminTools' = [adminTools EXCEPT ![uid] = AdminListedTools(uid, ai_tools)]
    /\ UNCHANGED <<cacheVars, awaitVars, lastAction, authVars, profiles, activity_logs, tableVars, tools, selectedTool,
                   lastRating, lastModeration>>

\* AdminPanel.handleApprove: the button is drawn for a listed tool whose
\* listed status is pending
handleApprove(uid, t, logOk) ==
    /\ IsOwner(uid)
    /\ t \in DOMAIN adminTools[uid]
    /\ adminTools[uid][t] = "pending"
    /\ ai_tools' = UpdateTool(uid, ai_tools, t, ApprovePatch(uid))
    /\ activity_logs' = LogInsert(logOk,
           [user_id |-> uid, action |-> "approve_tool",
            resource_type |-> "ai_tool", resource_id |-> ToString(t)])
    /\ IF LogActivityThrows(logOk)
       THEN UNCHANGED <<cache, adminTools>>
       ELSE /\ cache' = [cache EXCEPT ![uid] = CacheClear(@)]
            /\ adminTools' = [adminTools EXCEPT ![uid] = AdminListedTools(uid, ai_tools')]
    /\ lastModeration' = ModerationRecord("handleApprove", uid, t,
                                   UpdateMatches(uid, ai_tools, t, ApprovePatch(uid)))
    /\ UNCHANGED <<categories, now, lastGet, inflight, roleSets, authVars, profiles, nextToolId, tool_roles, tool_ratings, nextRatingId,
                   tool_comments, nextCommentId, tools, selectedTool, lastRating>>

\* AdminPanel.handleReject: opens the rejection modal for a listed pending tool
handleReject(uid, t) ==
    /\ IsOwner(uid)
    /\ t \in DOMAIN adminTools[uid]
    /\ adminTools[uid][t] = "pending"
    /\ selectedTool' = [selectedTool EXCEPT ![uid] = t]
    /\ UNCHANGED <<cacheVars, awaitVars, lastAction, authVars, profiles, activity_logs, tableVars, tools, adminTools,
                   lastRating, lastModeration>>

\* AdminPanel.confirmReject
confirmReject(uid, reason, logOk) ==
    /\ IsOwner(uid)
    /\ selectedTool[uid] # 0
    /\ LET t == selectedTool[uid]
       IN  /\ ai_tools' = UpdateTool(uid, ai_tools, t, RejectPatch(uid, reason))
           /\ activity_logs' = LogInsert(logOk,
                  [user_id |-> uid, action |-> "reject_tool",
                   resource_type |-> "ai_tool", resource_id |-> ToString(t)])
           /\ IF LogActivityThrows(logOk)
              THEN UNCHANGED <<cache, adminTools, selectedTool>>
              ELSE /\ cache' = [cache EXCEPT ![uid] = CacheClear(@)]
                   /\ adminTools' = [adminTools EXCEPT ![uid] =
                                         AdminListedTools(uid, ai_tools')]
                   /\ selectedTool' = [selectedTool EXCEPT ![uid] = 0]
           /\ lastModeration' = ModerationRecord("confirmReject", uid, t,
                                          UpdateMatches(uid, ai_tools, t, RejectPatch(uid, reason)))
    /\ UNCHANGED <<categories, now, lastGet, inflight, roleSets, authVars, profiles, nextToolId, tool_roles, tool_ratings, nextRatingId,
                   tool_comments, nextCommentId, tools, lastRating>>

\* the modal's close and cancel buttons
closeRejectionModal(uid) ==
    /\ IsOwner(uid)
    /\ selectedTool[uid] # 0
    /\ selectedTool' = [selectedTool EXCEPT ![uid] = 0]
    /\ UNCHANGED <<cacheVars, awaitVars, lastAction, authVars, profiles, activity_logs, tableVars, tools, adminTools,
                   lastRating, lastModeration>>

\* AdminPanel.handleDelete (confirm() answered yes)
adminHandleDelete(uid, t, logOk) ==
    /\ IsOwner(uid)
    /\ t \in DOMAIN adminTools[uid]
    /\ DeleteTool(uid, t)
    /\ activity_logs' = LogInsert(logOk,
           [user_id |-> uid, action |-> "delete_tool",
            resource_type |-> "ai_tool", resource_id |-> ToString(t)])
    /\ IF LogActivityThrows(logOk)
       THEN UNCHANGED <<cache, adminTools>>
       ELSE /\ cache' = [cache EXCEPT ![uid] = CacheClear(@)]
            /\ adminTools' = [adminTools EXCEPT ![uid] = AdminListedTools(uid, ai_tools')]
    /\ UNCHANGED <<categories, now, lastGet, inflight, roleSets, authVars, profiles, nextToolId, nextRatingId, nextCommentId, tools,
                   selectedTool, lastRating, lastModeration>>

\* ---------------------------------------------------------------------------
\* The REST endpoint of ai_tools, reached with the browser's own client and
\* the signed-in user's token: only the policies stand between it and the table
\* ---------------------------------------------------------------------------
StorePatches(uid) == { [status |-> "approved"], [status |-> "rejected"], ApprovePatch(uid) }

\* supabase.from('ai_tools').update(patch).eq('id', t)
storeUpdateTool(uid, t, patch) ==
    /\ uid \in DOMAIN profiles
    /\ ai_tools' = UpdateTool(uid, ai_tools, t, patch)
    /\ lastModeration' = ModerationRecord("storeUpdateTool", uid, t,
                                  UpdateMatches(uid, ai_tools, t, patch))
    /\ UNCHANGED <<cacheVars, awaitVars, lastAction, authVars, profiles, activity_logs, nextToolId, tool_roles,
                   tool_ratings, nextRatingId,
                   tool_comments, nextCommentId, tools, adminTools, selectedTool,
                   lastRating>>

\* supabase.from('ai_tools').insert([{ ..., status, created_by }])
storeInsertTool(uid, created_by, status) ==
    /\ uid \in DOMAIN profiles
    /\ nextToolId <= MaxTools
    /\ LET t == nextToolId
           row == [NewToolRow(created_by, "Foo") EXCEPT !.status = status]
       IN  IF RlsInsertAiTools(uid, row)
           THEN /\ ai_tools' = (t :> row) @@ ai_tools
                /\ nextToolId' = t + 1
           ELSE \* new row violates row-level security policy
                UNCHANGED <<ai_tools, nextToolId>>
    /\ UNCHANGED <<cacheVars, awaitVars, authVars, profiles, activity_logs, tool_roles,
                   tool_ratings, nextRatingId, tool_comments, nextCommentId,
                   tools, adminTools, selectedTool, lastRating, lastModeration>>

\* ---------------------------------------------------------------------------
\* Cached reads: AIToolsList useCache('categories'), Dashboard
\* useCache('dashboard-stats')
\* ---------------------------------------------------------------------------

CategoryInputs == { <<"a", "i">>, <<" ">>, <<" ", "a", "r", "t", " ">> }

\* the fetcher of each key, as the store answers the actor
Fetcher(uid, key) ==
    IF key = "categories" THEN categories
    ELSE [tools |-> Cardinality({t \in DOMAIN ai_tools : RlsSelectAiTools(uid, ai_tools[t])}),
          categories |-> Cardinality(categories),
          users |-> Cardinality(DOMAIN profiles)]

\* what the lookup of a hook found, before anything is deleted or stored
GetRecord(uid, key) ==
    LET c == cache[uid]
        present == key \in DOMAIN c
    IN  [actor |-> uid, key |-> key, present |-> present,
         age |-> IF present THEN now - c[key].timestamp ELSE 0,
         ttl |-> IF present THEN c[key].ttl ELSE 0,
         hit |-> CacheHas(c, key, now) /\ ~CacheGet(CacheAfterLookup(c, key, now), key, now).null,
         kept |-> key \in DOMAIN CacheAfterLookup(c, key, now)]

\* useCache.fetchData(false) with enabled = true: on mount and on every
\* change of the hook's dependencies
useCacheFetch(uid, key, fetchOk) ==
    /\ uid \in DOMAIN profiles
    /\ LET afterHas == CacheAfterLookup(cache[uid], key, now)
           hit == CacheHas(cache[uid], key, now) /\ ~CacheGet(afterHas, key, now).null
       IN  cache' = [cache EXCEPT ![uid] =
                        IF hit THEN afterHas
                        ELSE IF fetchOk
                             THEN CacheSet(afterHas, key, Fetcher(uid, key), TtlSecondsOf(key), now)
                             ELSE afterHas]
    /\ lastGet' = GetRecord(uid, key)
    /\ UNCHANGED <<authVars, profiles, activity_logs, tableVars, viewVars, categories, now,
                   lastAction, awaitVars>>

\* useCache.fetchData(false) up to `await fetcher()`: the hooks are mounted
\* by the Dashboard, which App renders for a signed-in user
useCacheBegin(uid, key) ==
    /\ session = uid
    /\ inflight[uid] = NoAwait
    /\ LET afterHas == CacheAfterLookup(cache[uid], key, now)
           hit == CacheHas(cache[uid], key, now) /\ ~CacheGet(afterHas, key, now).null
       IN  /\ cache' = [cache EXCEPT ![uid] = afterHas]
           /\ inflight' = [inflight EXCEPT ![uid] =
                              IF hit THEN NoAwait
                              ELSE [op |-> "fetch", tool |-> 0, roles |-> {}, key |-> key]]
    /\ lastGet' = GetRecord(uid, key)
    /\ UNCHANGED <<authVars, profiles, activity_logs, tableVars, viewVars, categories, now,
                   lastAction, roleSets>>

\* useCache.fetchData after `await fetcher()`: cache.set(key, result, ttl),
\* or the catch branch; nothing is looked at but the promise's outcome
useCacheResolve(uid, fetchOk) ==
    /\ inflight[uid].op = "fetch"
    /\ cache' = [cache EXCEPT ![uid] =
                    IF fetchOk
                    THEN CacheSet(@, inflight[uid].key, Fetcher(uid, inflight[uid].key),
                                  TtlSecondsOf(inflight[uid].key), now)
                    ELSE @]
    /\ inflight' = [inflight EXCEPT ![uid] = NoAwait]
    /\ UNCHANGED <<authVars, profiles, activity_logs, tableVars, viewVars, categories, now,
                   lastGet, lastAction, roleSets>>

\* the clock of the browser moves on
\* a minute on the clock, give or take a millisecond
ClockSteps == {59999, 60000, 60001}
tick(d) ==
    /\ now + d <= MaxClock
    /\ now' = now + d
    /\ UNCHANGED <<authVars, profiles, activity_logs, tableVars, viewVars, categories, cache,
                   lastGet, inflight, roleSets, lastAction>>

\* ---------------------------------------------------------------------------
\* Category creation (AIToolForm), two-factor switch (TwoFactorSettings),
\* logout (Dashboard)
\* ---------------------------------------------------------------------------

\* AIToolForm.handleCreateCategory: insert([{ name }]).select().single();
\* name is UNIQUE, the INSERT policy admits every signed-in user
handleCreateCategory(uid, raw) ==
    /\ uid \in DOMAIN profiles
    /\ Trim(raw) # << >>
    /\ IF Trim(raw) \notin categories
       THEN categories' = categories \cup {Trim(raw)}
       ELSE \* showErrorToast
            UNCHANGED categories
    /\ UNCHANGED <<authVars, profiles, activity_logs, tableVars, viewVars, cache, now, lastGet, inflight, roleSets>>

\* policy "Users can update own profile" (UPDATE on profiles)
RlsUpdateProfiles(uid, id) == uid = id

\* supabase.from('profiles').update({ role }).eq('id', id) sent to the REST
\* endpoint: the policy looks at the row, not at the columns written
storeUpdateProfile(uid, id, role) ==
    /\ uid \in DOMAIN profiles
    /\ id \in DOMAIN profiles
    /\ profiles' = IF RlsUpdateProfiles(uid, id)
                   THEN [profiles EXCEPT ![id].role = role]
                   ELSE profiles
    /\ UNCHANGED <<authVars, activity_logs, tableVars, viewVars, cacheVars, awaitVars,
                   lastAction>>

\* TwoFactorSettings.handleToggleTwoFactor; window.location.reload() starts
\* the page again: empty cache, nothing listed
handleToggleTwoFactor(uid, logOk) ==
    /\ uid \in DOMAIN profiles
    /\ RlsUpdateProfiles(uid, uid)
    /\ profiles' = [profiles EXCEPT ![uid].two_factor_enabled = ~@]
    /\ activity_logs' = LogInsert(logOk,
           [user_id |-> uid,
            action |-> IF profiles[uid].two_factor_enabled THEN "disable_2fa" ELSE "enable_2fa",
            resource_type |-> "profile", resource_id |-> uid])
    /\ IF LogActivityThrows(logOk)
       THEN UNCHANGED <<cache, tools, adminTools, selectedTool>>
       ELSE /\ cache' = [cache EXCEPT ![uid] = NoEntries]
            /\ tools' = [tools EXCEPT ![uid] = << >>]
            /\ adminTools' = [adminTools EXCEPT ![uid] = << >>]
            /\ selectedTool' = [selectedTool EXCEPT ![uid] = 0]
    /\ UNCHANGED <<authVars, tableVars, lastRating, lastModeration, categories, now, lastGet, inflight, roleSets>>

\* Dashboard.handleSignOut: await logActivity(logout), then AuthContext.signOut
handleSignOut(logOk) ==
    /\ session # NONE
    /\ activity_logs' = LogInsert(logOk,
           [user_id |-> session, action |-> "logout",
            resource_type |-> "auth", resource_id |-> NONE])
    /\ IF LogActivityThrows(logOk)
       THEN UNCHANGED <<session, cache, lastAuth>>
       ELSE /\ session' = NONE
            /\ cache' = [cache EXCEPT ![session] = CacheClear(@)]
            /\ lastAuth' = AuthRecord("signOut", session, NoCode, TRUE, FALSE)
    /\ UNCHANGED <<authPassword, showTwoFactor, twoFactorEmail, issued, consumed, tempCount,
                   profiles, tableVars, viewVars, categories, now, lastGet, inflight, roleSets>>

\* ---------------------------------------------------------------------------
\* The REST endpoint of activity_logs: RLS is enabled and the table has two
\* SELECT policies and one INSERT policy, none for UPDATE or DELETE
\* ---------------------------------------------------------------------------

\* a DELETE policy for owners
RlsDeleteActivityLogsOwners(uid, row) == IsOwner(uid)

RlsUpdateActivityLogs(uid, row) == FALSE
RlsDeleteActivityLogs(uid, row) == FALSE

\* supabase.from('activity_logs').update({ action }).eq(...) on the i-th row
storeUpdateLog(uid, i, action) ==
    /\ uid \in DOMAIN profiles
    /\ i \in 1..Len(activity_logs)
    /\ activity_logs' = IF RlsUpdateActivityLogs(uid, activity_logs[i])
                        THEN [activity_logs EXCEPT ![i].action = action]
                        ELSE activity_logs
    /\ UNCHANGED <<authVars, profiles, tableVars, viewVars, cacheVars, awaitVars>>

\* supabase.from('activity_logs').delete().eq(...) on the i-th row
storeDeleteLog(uid, i) ==
    /\ uid \in DOMAIN profiles
    /\ i \in 1..Len(activity_logs)
    /\ activity_logs' = IF RlsDeleteActivityLogs(uid, activity_logs[i])
                        THEN SubSeq(activity_logs, 1, i - 1)
                             \o SubSeq(activity_logs, i + 1, Len(activity_logs))
                        ELSE activity_logs
    /\ UNCHANGED <<authVars, profiles, tableVars, viewVars, cacheVars, awaitVars>>

\* ---------------------------------------------------------------------------
\* What a handler did, in the order of its statements; `accepted` says the
\* store answered the primary write without an error
\* ---------------------------------------------------------------------------

\* AIToolForm.handleSubmit: store, success toast, roles, logActivity,
\* invalidatePattern, onSave; the catch shows the error toast
FormSteps(accepted, logOk) ==
    IF ~accepted THEN <<"error">>
    ELSE IF LogActivityThrows(logOk) THEN <<"store", "success", "log", "error">>
    ELSE <<"store", "success", "log", "cache", "refresh">>

\* AIToolsList.handleDelete: store, logActivity, invalidatePattern, success
\* toast, fetchTools; the catch shows the error toast
ListDeleteSteps(accepted, logOk) ==
    IF ~accepted THEN <<"error">>
    ELSE IF LogActivityThrows(logOk) THEN <<"store", "log", "error">>
    ELSE <<"store", "log", "cache", "success", "refresh">>

\* AdminPanel.handleApprove, confirmReject, handleDelete: store, logActivity,
\* invalidatePattern, fetchTools; the catch prints and logs the failure
AdminSteps(accepted, logOk) ==
    IF ~accepted THEN <<"log">>
    ELSE IF LogActivityThrows(logOk) THEN <<"store", "log", "log">>
    ELSE <<"store", "log", "cache", "refresh">>

\* ToolRating.handleRatingClick, ToolComments.handleSubmitComment: store,
\* then the parent's refresh
WidgetSteps(accepted) == IF accepted THEN <<"store", "refresh">> ELSE << >>

\* AIToolForm.handleCreateCategory: store, then a toast
CategorySteps(accepted) == IF accepted THEN <<"store", "success">> ELSE <<"error">>

\* TwoFactorSettings.handleToggleTwoFactor: store, setSuccess, logActivity,
\* reload
ToggleSteps(accepted, logOk) ==
    IF ~accepted THEN <<"error", "log">>
    ELSE IF LogActivityThrows(logOk) THEN <<"store", "success", "log", "error", "log">>
    ELSE <<"store", "success", "log", "reload">>

\* AuthContext.signIn: signInWithPassword, profile read, insert into
\* activity_logs inside its own try/catch
SignInSteps(accepted) == IF accepted THEN <<"store", "log">> ELSE <<"error">>

\* Dashboard.handleSignOut: logActivity, then signOut (clearAll first)
SignOutSteps(logOk) ==
    IF LogActivityThrows(logOk) THEN <<"log">> ELSE <<"log", "cache", "store">>

\* the record of a handler's run: `stored` says the primary write changed
\* the persisted records, `completed` that the handler reached the end of
\* its success path, as seen on the state it leaves
ActionRecord(uid, action, logOk, accepted, stored, completed, steps) ==
    [actor |-> uid, action |-> action, logOk |-> logOk, accepted |-> accepted,
     stored |-> stored, completed |-> completed,
     hadEntries |-> uid \in DOMAIN cache /\ cache[uid] # NoEntries,
     cleared |-> uid \notin DOMAIN cache \/ cache'[uid] = NoEntries,
     steps |-> steps,
     request |-> NoRequest]

ListRefreshed(uid) == tools'[uid] = ListedTools(uid, ai_tools') /\ cache'[uid] = NoEntries
AdminRefreshed(uid) ==
    adminTools'[uid] = AdminListedTools(uid, ai_tools') /\ cache'[uid] = NoEntries

\* ---------------------------------------------------------------------------
\* Specifications of the catalogue
\* ---------------------------------------------------------------------------
Profile(role) == [role |-> role, two_factor_enabled |-> FALSE]

SignedOutTab ==
    /\ authPassword = [u \in DOMAIN profiles |-> SeedPassword]
    /\ session = NONE
    /\ showTwoFactor = FALSE
    /\ twoFactorEmail = ""
    /\ issued = [e \in EmailInputs |-> NoCode]
    /\ consumed = [e \in EmailInputs |-> FALSE]
    /\ tempCount = 0
    /\ lastAuth = AuthRecord("init", "", NoCode, FALSE, FALSE)
    /\ activity_logs = << >>

\* the audit write of the catalogue handlers is answered with an error here;
\* every handler swallows it
CatalogueLogOk == FALSE

\* ---- the tool list under submit, edit, delete, approve and reject:
\* one owner, two members ----
ListInit ==
    /\ profiles = ("o1" :> Profile("owner")) @@ ("a" :> Profile("backend"))
                  @@ ("b" :> Profile("frontend"))
    /\ SignedOutTab
    /\ EmptyCatalogue

ListNext ==
    \/ \E uid \in UserIds : fetchTools(uid)
    \/ \E uid \in UserIds : handleSubmitCreate(uid, "Foo", {"frontend"}, CatalogueLogOk) /\ UNCHANGED lastAction
    \/ \E uid \in UserIds, t \in 1..MaxTools, name \in NameInputs :
          handleSubmitEdit(uid, t, name, {"frontend"}, CatalogueLogOk) /\ UNCHANGED lastAction
    \/ \E uid \in UserIds, t \in 1..MaxTools : handleDelete(uid, t, CatalogueLogOk) /\ UNCHANGED lastAction
    \/ \E uid \in UserIds : adminFetchTools(uid)
    \/ \E uid \in UserIds, t \in 1..MaxTools : handleApprove(uid, t, CatalogueLogOk) /\ UNCHANGED lastAction
    \/ \E uid \in UserIds, t \in 1..MaxTools : handleReject(uid, t)
    \/ \E uid \in UserIds, reason \in ReasonInputs :
          confirmReject(uid, reason, CatalogueLogOk) /\ UNCHANGED lastAction

SpecList == ListInit /\ [][ListNext]_vars

\* ---- a deployment that had tools before the approval migration ran ----
\* a row stored under the first schema, after ADD COLUMN gave it the defaults
\* of the approval columns
LegacyToolRow(uid, name) ==
    [name |-> name, status |-> "pending", created_by |-> uid,
     approved_by |-> NULL, approved_at |-> NULL, rejection_reason |-> NULL]

\* UPDATE ai_tools SET status = 'approved' WHERE status = 'pending'
BackfillApproved(table) ==
    [t \in DOMAIN table |->
        IF table[t].status = "pending"
        THEN [table[t] EXCEPT !.status = "approved"]
        ELSE table[t]]

LegacyInit ==
    /\ profiles = ("o1" :> Profile("owner")) @@ ("a" :> Profile("backend"))
                  @@ ("b" :> Profile("frontend"))
    /\ SignedOutTab
    /\ NoDependents
    /\ \E legacy \in BOOLEAN :
          /\ ai_tools = IF legacy
                        THEN BackfillApproved(1 :> LegacyToolRow("a", "Foo"))
                        ELSE << >>
          /\ nextToolId = IF legacy THEN 2 ELSE 1

SpecLegacy == LegacyInit /\ [][ListNext]_vars

\* ---- the admin panel open in the tabs of two owners, one member submitting ----
ToolsInit ==
    /\ profiles = ("o1" :> Profile("owner")) @@ ("o2" :> Profile("owner"))
                  @@ ("a" :> Profile("backend"))
    /\ SignedOutTab
    /\ EmptyCatalogue

ModerationNext ==
    \/ \E uid \in UserIds : handleSubmitCreate(uid, "Foo", {"frontend"}, CatalogueLogOk) /\ UNCHANGED lastAction
    \/ \E uid \in UserIds : adminFetchTools(uid)
    \/ \E uid \in UserIds, t \in 1..MaxTools : handleApprove(uid, t, CatalogueLogOk) /\ UNCHANGED lastAction
    \/ \E uid \in UserIds, t \in 1..MaxTools : handleReject(uid, t)
    \/ \E uid \in UserIds, reason \in ReasonInputs : confirmReject(uid, reason, CatalogueLogOk) /\ UNCHANGED lastAction
    \/ \E uid \in UserIds : closeRejectionModal(uid)
    \/ \E uid \in UserIds, t \in 1..MaxTools : adminHandleDelete(uid, t, CatalogueLogOk) /\ UNCHANGED lastAction

SpecTools == ToolsInit /\ [][ModerationNext]_vars

\* ---- the same, with the REST endpoint open to every signed-in user ----
StoreNext ==
    \/ ModerationNext
    \/ \E uid \in UserIds, t \in 1..MaxTools :
          \E patch \in StorePatches(uid) : storeUpdateTool(uid, t, patch)

SpecStore == ToolsInit /\ [][StoreNext]_vars

\* ---- ratings and comments: one owner, two members ----
RateNext ==
    \/ \E uid \in UserIds : fetchTools(uid)
    \/ handleSubmitCreate("a", "Foo", {"frontend"}, CatalogueLogOk) /\ UNCHANGED lastAction
    \/ \E uid \in UserIds : adminFetchTools(uid)
    \/ \E uid \in UserIds, t \in 1..MaxTools : handleApprove(uid, t, CatalogueLogOk) /\ UNCHANGED lastAction
    \/ \E uid \in UserIds, t \in 1..MaxTools, rating \in StarValues :
          handleRatingClick(uid, t, rating) /\ UNCHANGED lastRating /\ UNCHANGED lastAction
    \/ \E t \in 1..MaxTools, raw \in CommentInputs :
          handleSubmitComment("b", t, raw) /\ UNCHANGED lastAction
    \/ \E uid \in UserIds, t \in 1..MaxTools : handleDelete(uid, t, CatalogueLogOk) /\ UNCHANGED lastAction

SpecRate == ListInit /\ [][RateNext]_vars

\* ---- the rating widget alone, each click recorded with the store's answer ----
RerateNext ==
    \/ \E uid \in UserIds : fetchTools(uid)
    \/ \E uid \in UserIds : handleSubmitCreate(uid, "Foo", {"frontend"}, CatalogueLogOk) /\ UNCHANGED lastAction
    \/ \E uid \in UserIds, t \in 1..MaxTools, rating \in StarValues :
          handleRatingClick(uid, t, rating) /\ lastRating' = RatingRecord(uid, t, rating) /\ UNCHANGED lastAction
    \/ \E uid \in UserIds, t \in 1..MaxTools : handleDelete(uid, t, CatalogueLogOk) /\ UNCHANGED lastAction

SpecRerate == ListInit /\ [][RerateNext]_vars

\* ---- rating values: the five stars of the widget and, through the same
\* upsert, whatever a client sends ----
RatingInputs == {0, 3, 6}

StarsNext ==
    \/ \E uid \in {"a", "b"} : fetchTools(uid)
    \/ handleSubmitCreate("a", "Foo", {"frontend"}, CatalogueLogOk) /\ UNCHANGED lastAction
    \/ \E uid \in {"a", "b"}, t \in 1..MaxTools, rating \in RatingInputs :
          handleRatingClick(uid, t, rating) /\ lastRating' = RatingRecord(uid, t, rating)
              /\ UNCHANGED lastAction
    \/ adminFetchTools("o1")
    \/ \E t \in 1..MaxTools : handleApprove("o1", t, CatalogueLogOk) /\ UNCHANGED lastAction
    \/ \E t \in 1..MaxTools : handleDelete("a", t, CatalogueLogOk) /\ UNCHANGED lastAction

SpecStars == ListInit /\ [][StarsNext]_vars

\* ---- one tab's cache under its two hooks and a moving clock ----
CacheNext ==
    \/ \E d \in ClockSteps : tick(d)
    \/ \E key \in CacheKeys, fetchOk \in BOOLEAN : useCacheFetch("a", key, fetchOk)

SpecCache == ListInit /\ [][CacheNext]_vars

\* ---- every handler that writes, each run recorded; the audit write may
\* fail; the owner and one member ----
AuditInit ==
    /\ profiles = ("o1" :> Profile("owner")) @@ ("a" :> Profile("backend"))
    /\ SignedOutTab
    /\ EmptyCatalogue

signInRecorded(email, password, logOk) ==
    /\ handleSubmit(email, password, "Invalid login credentials", NoCode, logOk)
    /\ LET pwOk == SignInWithPasswordOk(email, password)
       IN  lastAction' = ActionRecord(email, "login", logOk, pwOk, pwOk,
                                      session' = email, SignInSteps(pwOk))

signOutRecorded(logOk) ==
    /\ handleSignOut(logOk)
    /\ lastAction' = ActionRecord(session, "logout", logOk, TRUE, TRUE,
                                  session' = NONE /\ cache'[session] = NoEntries,
                                  SignOutSteps(logOk))

toggleRecorded(uid, logOk) ==
    /\ handleToggleTwoFactor(uid, logOk)
    /\ lastAction' = ActionRecord(uid, "toggle_2fa", logOk, TRUE, TRUE,
                                  cache'[uid] = NoEntries /\ tools'[uid] = << >>,
                                  ToggleSteps(TRUE, logOk))

createRecorded(uid, logOk) ==
    /\ handleSubmitCreate(uid, "Foo", {"frontend"}, logOk)
    /\ lastAction' = ActionRecord(uid, "create_tool", logOk, TRUE, TRUE,
                                  ListRefreshed(uid), FormSteps(TRUE, logOk))

editRecorded(uid, t, name, logOk) ==
    /\ handleSubmitEdit(uid, t, name, {"frontend"}, logOk)
    /\ LET ok == t \in DOMAIN ai_tools /\ RlsUpdateAiTools(uid, ai_tools[t])
       IN  lastAction' = ActionRecord(uid, "update_tool", logOk, ok, ok,
                                      ListRefreshed(uid), FormSteps(ok, logOk))

deleteRecorded(uid, t, logOk) ==
    /\ handleDelete(uid, t, logOk)
    /\ lastAction' = ActionRecord(uid, "delete_tool", logOk, TRUE,
                                  t \in DOMAIN ai_tools /\ RlsDeleteAiTools(uid, ai_tools[t]),
                                  ListRefreshed(uid), ListDeleteSteps(TRUE, logOk))

approveRecorded(uid, t, logOk) ==
    /\ handleApprove(uid, t, logOk)
    /\ lastAction' = ActionRecord(uid, "approve_tool", logOk, TRUE,
                                  UpdateMatches(uid, ai_tools, t, ApprovePatch(uid)),
                                  AdminRefreshed(uid), AdminSteps(TRUE, logOk))

rejectRecorded(uid, reason, logOk) ==
    /\ confirmReject(uid, reason, logOk)
    /\ lastAction' = ActionRecord(uid, "reject_tool", logOk, TRUE,
                                  UpdateMatches(uid, ai_tools, selectedTool[uid],
                                                RejectPatch(uid, reason)),
                                  AdminRefreshed(uid) /\ selectedTool'[uid] = 0,
                                  AdminSteps(TRUE, logOk))

rateRecorded(uid, t, rating) ==
    /\ handleRatingClick(uid, t, rating)
    /\ UNCHANGED lastRating
    /\ LET ok == UpsertRatingOk(uid, ai_tools, tool_ratings,
                                [tool_id |-> t, user_id |-> uid, rating |-> rating])
       IN  lastAction' = ActionRecord(uid, "rate", FALSE, ok, ok, ok, WidgetSteps(ok))

commentRecorded(uid, t, raw) ==
    /\ handleSubmitComment(uid, t, raw)
    /\ LET ok == Trim(raw) # << >> /\ t \in DOMAIN ai_tools
       IN  lastAction' = ActionRecord(uid, "comment", FALSE, ok, ok, ok, WidgetSteps(ok))

categoryRecorded(uid, raw) ==
    /\ handleCreateCategory(uid, raw)
    /\ LET ok == Trim(raw) \notin categories
       IN  lastAction' = ActionRecord(uid, "create_category", FALSE, ok, ok, ok,
                                      CategorySteps(ok))

logUpdateRecorded(uid, i) ==
    /\ storeUpdateLog(uid, i, "login")
    /\ lastAction' = ActionRecord(uid, "store_update_log", FALSE,
                                  RlsUpdateActivityLogs(uid, activity_logs[i]),
                                  RlsUpdateActivityLogs(uid, activity_logs[i]), FALSE, << >>)

logDeleteRecorded(uid, i) ==
    /\ storeDeleteLog(uid, i)
    /\ lastAction' = ActionRecord(uid, "store_delete_log", FALSE,
                                  RlsDeleteActivityLogs(uid, activity_logs[i]),
                                  RlsDeleteActivityLogs(uid, activity_logs[i]), FALSE, << >>)

\* the tool form, the list, the admin panel, the settings and the session in
\* the owner's tab, every audit write answered with an error
AuditNext ==
    \/ \E key \in CacheKeys : useCacheFetch("o1", key, TRUE)
    \/ signInRecorded("o1", SeedPassword, CatalogueLogOk)
    \/ signOutRecorded(CatalogueLogOk)
    \/ toggleRecorded("o1", CatalogueLogOk)
    \/ fetchTools("o1")
    \/ adminFetchTools("o1")
    \/ createRecorded("o1", CatalogueLogOk)
    \/ \E t \in 1..MaxTools : editRecorded("o1", t, "Bar", CatalogueLogOk)
    \/ \E t \in 1..MaxTools : deleteRecorded("o1", t, CatalogueLogOk)
    \/ \E t \in 1..MaxTools : approveRecorded("o1", t, CatalogueLogOk)
    \/ \E t \in 1..MaxTools : handleReject("o1", t)
    \/ rejectRecorded("o1", "", CatalogueLogOk)

SpecAudit == AuditInit /\ [][AuditNext]_vars

\* ---- the audit table: a member submits, the owner moderates, every audit
\* write answered well, and both try to rewrite the table ----
MutateLogOk == TRUE

LogNext ==
    \/ createRecorded("a", MutateLogOk)
    \/ adminFetchTools("o1")
    \/ \E t \in 1..MaxTools : approveRecorded("o1", t, MutateLogOk)
    \/ \E t \in 1..MaxTools : handleReject("o1", t)
    \/ \E reason \in ReasonInputs : rejectRecorded("o1", reason, MutateLogOk)
    \/ \E uid \in {"o1", "a"} : toggleRecorded(uid, MutateLogOk)
    \/ \E uid \in {"o1", "a"}, i \in 1..MaxLog : logUpdateRecorded(uid, i)
    \/ \E uid \in {"o1", "a"}, i \in 1..MaxLog : logDeleteRecorded(uid, i)

SpecLog == AuditInit /\ [][LogNext]_vars

\* ---- one member's tab: the form, the widgets and the category box, every
\* audit write answered well ----
MutateNext ==
    \/ \E key \in CacheKeys : useCacheFetch("a", key, TRUE)
    \/ fetchTools("a")
    \/ createRecorded("a", MutateLogOk)
    \/ \E t \in 1..MaxTools : editRecorded("a", t, "Bar", MutateLogOk)
    \/ \E t \in 1..MaxTools : deleteRecorded("a", t, MutateLogOk)
    \/ \E t \in 1..MaxTools, rating \in StarValues : rateRecorded("a", t, rating)
    \/ \E t \in 1..MaxTools, raw \in CommentInputs : commentRecorded("a", t, raw)
    \/ \E raw \in CategoryInputs : categoryRecorded("a", raw)

SpecMutate == AuditInit /\ [][MutateNext]_vars

\* ---- tools entering the table: the form and the REST endpoint ----
insertRecorded(uid, created_by, status) ==
    /\ storeInsertTool(uid, created_by, status)
    /\ LET ok == RlsInsertAiTools(uid, [NewToolRow(created_by, "Foo")
                                           EXCEPT !.status = status])
       IN  lastAction' = [ActionRecord(uid, "insert_tool", FALSE, ok, ok, ok, << >>)
                            EXCEPT !.request = [created_by |-> created_by,
                                                status |-> status]]

SubmitNext ==
    \/ \E uid \in UserIds : fetchTools(uid)
    \/ \E uid \in UserIds : createRecorded(uid, CatalogueLogOk)
    \/ \E uid \in UserIds, created_by \in {"a", "o1"}, status \in Statuses :
          insertRecorded(uid, created_by, status)
    \/ adminFetchTools("o1")
    \/ \E t \in 1..MaxTools : approveRecorded("o1", t, CatalogueLogOk)
    \/ \E uid \in {"a", "o1"}, t \in 1..MaxTools : deleteRecorded(uid, t, CatalogueLogOk)

SpecSubmit == ListInit /\ [][SubmitNext]_vars

\* ---- everything member a can do alone, the REST endpoint of profiles
\* included ----
ProfileRoles == {"owner", "backend"}

ProfileNext ==
    \/ fetchTools("a")
    \/ handleSubmitCreate("a", "Foo", {"frontend"}, CatalogueLogOk) /\ UNCHANGED lastAction
    \/ handleToggleTwoFactor("a", CatalogueLogOk) /\ UNCHANGED lastAction
    \/ \E id \in {"a", "o1"}, role \in ProfileRoles : storeUpdateProfile("a", id, role)
    \/ adminFetchTools("a")
    \/ \E t \in 1..MaxTools : handleApprove("a", t, CatalogueLogOk) /\ UNCHANGED lastAction
    \/ \E t \in 1..MaxTools, rating \in StarValues :
          handleRatingClick("a", t, rating) /\ UNCHANGED lastRating /\ UNCHANGED lastAction
    \/ \E t \in 1..MaxTools, raw \in CommentInputs :
          handleSubmitComment("a", t, raw) /\ UNCHANGED lastAction

SpecProfile == AuditInit /\ [][ProfileNext]_vars

\* ---- sessions of one tab after another, the hooks' fetches suspended at
\* their await ----
SessionNext ==
    \/ \E email \in {"o1", "a"}, password \in PasswordInputs :
          handleSubmit(email, password, "Invalid login credentials", NoCode, CatalogueLogOk)
          /\ UNCHANGED lastAction
    \/ handleSignOut(CatalogueLogOk) /\ UNCHANGED lastAction
    \/ \E uid \in {"o1", "a"}, key \in CacheKeys : useCacheBegin(uid, key)
    \/ \E uid \in {"o1", "a"}, fetchOk \in BOOLEAN : useCacheResolve(uid, fetchOk)

SpecSession == AuditInit /\ [][SessionNext]_vars

\* ---- the password step alone, each attempt recorded ----
LoginNext ==
    \/ \E email \in EmailInputs, password \in PasswordInputs, logOk \in BOOLEAN :
          signInRecorded(email, password, logOk)
    \/ \E logOk \in BOOLEAN : signOutRecorded(logOk)

SpecLogin == AuthInit /\ [][LoginNext]_vars

\* ---- the comment box: the author, another member and the owner ----
CommentAction(uid, action, c, content, wrote) ==
    [ActionRecord(uid, action, FALSE, wrote, wrote, wrote, WidgetSteps(wrote))
        EXCEPT !.request = [comment |-> c, content |-> content]]

submitCommentRecorded(uid, t, raw) ==
    /\ handleSubmitComment(uid, t, raw)
    /\ lastAction' = CommentAction(uid, "comment", nextCommentId, raw,
                                   tool_comments' # tool_comments)

editCommentRecorded(uid, c, raw) ==
    /\ handleEditComment(uid, c, raw)
    /\ lastAction' = CommentAction(uid, "edit_comment", c, raw,
                                   tool_comments' # tool_comments)

deleteCommentRecorded(uid, c) ==
    /\ handleDeleteComment(uid, c)
    /\ lastAction' = CommentAction(uid, "delete_comment", c, << >>,
                                   tool_comments' # tool_comments)

storeUpdateCommentRecorded(uid, c, content) ==
    /\ storeUpdateComment(uid, c, content)
    /\ lastAction' = CommentAction(uid, "store_update_comment", c, content,
                                   tool_comments' # tool_comments)

storeDeleteCommentRecorded(uid, c) ==
    /\ storeDeleteComment(uid, c)
    /\ lastAction' = CommentAction(uid, "store_delete_comment", c, << >>,
                                   tool_comments' # tool_comments)

\* what the edit box holds at submit
EditInputs == { <<" ">>, <<" ", "y", "o">> }

CommentsInit ==
    /\ profiles = ("o1" :> Profile("owner")) @@ ("a" :> Profile("backend"))
                  @@ ("b" :> Profile("frontend"))
    /\ SignedOutTab
    /\ NoDependents
    \* one tool, submitted by a and approved by o1
    /\ ai_tools = 1 :> ApplyPatch(NewToolRow("a", "Foo"), ApprovePatch("o1"))
    /\ nextToolId = 2

CommentsNext ==
    \/ \E uid \in UserIds : fetchTools(uid)
    \/ \E uid \in {"a", "b"}, t \in 1..MaxTools, raw \in CommentInputs :
          submitCommentRecorded(uid, t, raw)
    \/ \E uid \in UserIds, c \in 1..MaxComments, raw \in EditInputs :
          editCommentRecorded(uid, c, raw)
    \/ \E uid \in UserIds, c \in 1..MaxComments : deleteCommentRecorded(uid, c)
    \/ \E uid \in UserIds, c \in 1..MaxComments :
          storeUpdateCommentRecorded(uid, c, <<"y", "o">>)
    \/ \E uid \in UserIds, c \in 1..MaxComments : storeDeleteCommentRecorded(uid, c)

SpecComments == CommentsInit /\ [][CommentsNext]_vars

\* ---- the creator and an owner editing the roles of the same tool ----
\* what the role checkboxes of the two forms hold at submit
EditedRoleSets == { {}, {"frontend"}, {"backend"}, {"frontend", "backend"} }

RolesNext ==
    \/ \E uid \in {"a", "o1"} : fetchTools(uid)
    \/ handleSubmitCreate("a", "Foo", {"frontend"}, CatalogueLogOk) /\ UNCHANGED lastAction
    \/ \E uid \in {"a", "o1"}, t \in 1..MaxTools, roles \in EditedRoleSets :
          submitEditBegin(uid, t, "Foo", roles)
    \/ \E uid \in {"a", "o1"}, sent \in BOOLEAN :
          submitEditFinish(uid, sent, CatalogueLogOk)

SpecRoles == AuditInit /\ [][RolesNext]_vars

\* ---- a member and an owner editing tools before and after moderation ----
EditNext ==
    \/ \E uid \in UserIds : fetchTools(uid)
    \/ createRecorded("a", CatalogueLogOk)
    \/ \E uid \in {"a", "o1"}, t \in 1..MaxTools, name \in NameInputs :
          editRecorded(uid, t, name, CatalogueLogOk)
    \/ adminFetchTools("o1")
    \/ \E t \in 1..MaxTools : approveRecorded("o1", t, CatalogueLogOk)
    \/ \E t \in 1..MaxTools : handleReject("o1", t)
    \/ \E reason \in ReasonInputs : rejectRecorded("o1", reason, CatalogueLogOk)
    \/ \E uid \in {"a", "o1"}, t \in 1..MaxTools : deleteRecorded(uid, t, CatalogueLogOk)

SpecEdit == ListInit /\ [][EditNext]_vars

\* ---------------------------------------------------------------------------
\* Login machine as the specification names its states
\* ---------------------------------------------------------------------------
AwaitingCode == session = NONE /\ showTwoFactor
Authenticated == session # NONE

\* C1: for an account with two_factor_enabled, submitCredentials with the
\* correct password moves the login machine to AwaitingCode, holding the
\* email, and establishes no session.
C1_CorrectPasswordAwaitsCode ==
    (lastAuth.op = "handleSubmit" /\ lastAuth.pwOk /\ lastAuth.tfa)
        => (AwaitingCode /\ twoFactorEmail = lastAuth.email)

C3_OnlyIssuedUnconsumedCodeVerifies ==
    (lastAuth.op \in {"handleTwoFactorSubmit", "serveVerify2fa"} /\ lastAuth.ok)
        => (lastAuth.code = lastAuth.issuedBefore /\ ~lastAuth.consumedBefore)

\* ---------------------------------------------------------------------------
\* Visibility of tools
\* ---------------------------------------------------------------------------

\* C4: in every reachable state the tool list query returns to an actor
\* exactly the approved tools, the actor's own tools and, for an owner, every
\* tool; so another member's pending tool is never returned to a non-owner.
C4_ListIsExactlyViewable ==
    \A u \in DOMAIN profiles :
        FetchTools(u, ai_tools) =
            {t \in DOMAIN ai_tools : \/ ai_tools[t].status = "approved"
                                     \/ ai_tools[t].created_by = u
                                     \/ profiles[u].role = "owner"}

\* a tool submitted by member a, approved by the owner and then loaded into
\* member b's list, while still stored as approved
C4_ApprovedToolListedForOther ==
    \E t \in DOMAIN ai_tools :
        /\ ai_tools[t].created_by = "a"
        /\ ai_tools[t].status = "approved"
        /\ ai_tools[t].approved_by = "o1"
        /\ t \in DOMAIN tools["b"]

\* ---------------------------------------------------------------------------
\* Moderation
\* ---------------------------------------------------------------------------
\* C5: a write that changes status, approved_by, approved_at or
\* rejection_reason of a tool is accepted only from an actor whose role is
\* owner.
C5_OnlyOwnersModerate ==
    (/\ lastModeration.ok
     /\ lastModeration.tool \in DOMAIN ai_tools
     /\ \/ ai_tools[lastModeration.tool].status # lastModeration.prevStatus
        \/ ai_tools[lastModeration.tool].approved_by # lastModeration.prevApprovedBy)
        => IsOwner(lastModeration.actor)

\* C6: the moderation write that landed last determines the row: after a
\* reject by an owner the tool is rejected, that owner is recorded and the
\* reason is not empty, whoever approved before and however old the
\* rejecting owner's list was; after an approve the tool is approved with
\* that owner recorded.
C6_LastModerationWins ==
    (lastModeration.ok /\ lastModeration.tool \in DOMAIN ai_tools) =>
        LET row == ai_tools[lastModeration.tool]
        IN  /\ lastModeration.op = "confirmReject" =>
                  /\ row.status = "rejected"
                  /\ row.approved_by = lastModeration.actor
                  /\ row.rejection_reason \notin {NULL, ""}
            /\ lastModeration.op = "handleApprove" =>
                  /\ row.status = "approved"
                  /\ row.approved_by = lastModeration.actor

\* owner o2 rejected, from a list that still showed the tool as pending, a
\* tool that owner o1 had approved
C6_RejectAfterOtherOwnersApprove ==
    /\ lastModeration.op = "confirmReject"
    /\ lastModeration.ok
    /\ lastModeration.actor = "o2"
    /\ lastModeration.prevStatus = "approved"
    /\ lastModeration.prevApprovedBy = "o1"
    /\ lastModeration.tool \in DOMAIN ai_tools
    /\ ai_tools[lastModeration.tool].status = "rejected"

\* what the admin panel of owner o offers for tool t, now or after a reload
RejectOffered(o, t) ==
    \/ ENABLED handleReject(o, t)
    \/ selectedTool[o] = t /\ ENABLED confirmReject(o, "", CatalogueLogOk)
    \/ t \in DOMAIN AdminListedTools(o, ai_tools)
          /\ AdminListedTools(o, ai_tools)[t] = "pending"

ApproveOffered(o, t) ==
    \/ ENABLED handleApprove(o, t, CatalogueLogOk)
    \/ t \in DOMAIN AdminListedTools(o, ai_tools)
          /\ AdminListedTools(o, ai_tools)[t] = "pending"

\* C7: neither approved nor rejected is terminal: whenever a tool is approved
\* some owner can perform a reject on it, and whenever it is rejected some
\* owner can perform an approve on it.
C7_NoTerminalStatus ==
    \A t \in DOMAIN ai_tools :
        /\ ai_tools[t].status = "approved" =>
              \E o \in DOMAIN profiles : IsOwner(o) /\ RejectOffered(o, t)
        /\ ai_tools[t].status = "rejected" =>
              \E o \in DOMAIN profiles : IsOwner(o) /\ ApproveOffered(o, t)

\* ---------------------------------------------------------------------------
\* Ratings, aggregates and cascades
\* ---------------------------------------------------------------------------

\* the rating rows stored for tool t, whoever may read them
StoredRatings(t) == {tool_ratings[i] : i \in 1..Len(tool_ratings)} \cap
                    {r \in {tool_ratings[i] : i \in 1..Len(tool_ratings)} : r.tool_id = t}

\* sum of the ratings of a set of rows, in no particular order
RECURSIVE SumOfRows(_)
SumOfRows(rows) ==
    IF rows = {} THEN 0
    ELSE LET r == CHOOSE x \in rows : TRUE
         IN  r.rating + SumOfRows(rows \ {r})

\* the aggregate is the count and the arithmetic mean of the stored rows of t
AggregateIsStoredMean(t) ==
    LET stats == ToolStats(ai_tools, tool_ratings, tool_comments, t)
        stored == StoredRatings(t)
    IN  /\ stats.total_ratings = Cardinality(stored)
        /\ stats.average_rating.num * Cardinality(stored)
              = SumOfRows(stored) * stats.average_rating.den
        /\ (stats.average_rating.num = 0) <=> (stored = {})

\* the aggregate shows nothing
AggregateIsZero(t) ==
    LET stats == ToolStats(ai_tools, tool_ratings, tool_comments, t)
    IN  stats.total_ratings = 0 /\ stats.average_rating.num = 0

\* C8: a rate by an actor who already has a rating row for the tool succeeds
\* and leaves exactly one row for (tool, actor), carrying the new value.
C8_RepeatedRateOverwrites ==
    (lastRating.hadRow /\ lastRating.tool \in DOMAIN ai_tools) =>
        /\ lastRating.ok
        /\ \E i \in 1..Len(tool_ratings) :
              /\ tool_ratings[i].tool_id = lastRating.tool
              /\ tool_ratings[i].user_id = lastRating.actor
              /\ tool_ratings[i].rating = lastRating.rating
              /\ \A j \in 1..Len(tool_ratings) :
                    (/\ tool_ratings[j].tool_id = lastRating.tool
                     /\ tool_ratings[j].user_id = lastRating.actor) => j = i

C10_DeleteCascades ==
    \A t \in 1..MaxTools :
        t \notin DOMAIN ai_tools =>
            /\ \A r \in tool_roles : r.tool_id # t
            /\ \A i \in 1..Len(tool_ratings) : tool_ratings[i].tool_id # t
            /\ \A i \in 1..Len(tool_comments) : tool_comments[i].tool_id # t
            /\ ToolStats(ai_tools, tool_ratings, tool_comments, t)
                  = [total_comments |-> 0, total_ratings |-> 0,
                     average_rating |-> [num |-> 0, den |-> 1]]

\* tool 1 was submitted with a role, received three ratings and two comments
\* and was then deleted: nothing of it is left
C10_DeletedWithRatingsAndComments ==
    /\ nextToolId > 1
    /\ 1 \notin DOMAIN ai_tools
    /\ nextRatingId = 4
    /\ nextCommentId = 3
    /\ \A i \in 1..Len(tool_ratings) : tool_ratings[i].tool_id # 1
    /\ \A i \in 1..Len(tool_comments) : tool_comments[i].tool_id # 1

\* ---------------------------------------------------------------------------
\* Cache expiry
\* ---------------------------------------------------------------------------

\* C11: for an entry stored at time s with time-to-live T, a lookup at time n
\* answers with the stored value if and only if n - s < T; at every n with
\* n - s >= T, n - s = T included, the lookup is a miss and the entry is
\* discarded.
C11_HitIffYoungerThanTtl ==
    lastGet.present =>
        /\ lastGet.hit <=> lastGet.age < lastGet.ttl
        /\ ~lastGet.hit => ~lastGet.kept

\* ---------------------------------------------------------------------------
\* Cache invalidation and the audit trail
\* ---------------------------------------------------------------------------
CachedMutations ==
    {"create_tool", "update_tool", "delete_tool", "approve_tool", "reject_tool",
     "create_category"}

\* C12: every successful mutation of a cached collection (tool create, edit,
\* delete, approve, reject, category creation) clears the whole cache of the
\* tab, so no later cache read returns a value stored before the mutation.
C12_MutationClearsCache ==
    (lastAction.action \in CachedMutations /\ lastAction.stored) => lastAction.cleared

PrimaryActions ==
    {"login", "create_tool", "update_tool", "delete_tool", "approve_tool",
     "reject_tool", "toggle_2fa", "logout"}

\* C13: when the audit write of a primary action (login, create, edit,
\* delete, approve, reject, 2FA switch, logout) fails, the action still runs
\* its success path to the end: the write the store accepted stays, the
\* cache is invalidated and the views refreshed as on success, and no error
\* is shown.
C13_LogFailureChangesNothing ==
    (lastAction.action \in PrimaryActions /\ ~lastAction.logOk /\ lastAction.accepted)
        => /\ lastAction.completed
           /\ \A i \in 1..Len(lastAction.steps) : lastAction.steps[i] # "error"

\* the owner approved a tool with entries in the cache while the audit
\* table refused the row
C13_ApprovedWhileLogDown ==
    /\ lastAction.action = "approve_tool"
    /\ ~lastAction.logOk
    /\ lastAction.stored
    /\ lastAction.hadEntries
    /\ lastAction.completed
    /\ activity_logs = << >>
    /\ \E t \in DOMAIN ai_tools : ai_tools[t].status = "approved"

MutatingActions ==
    {"create_tool", "update_tool", "delete_tool", "approve_tool", "reject_tool",
     "rate", "comment", "create_category", "toggle_2fa"}

\* C14: every successful mutating action (submit, edit, delete, approve,
\* reject, rate, comment, category creation, 2FA switch) attempts an audit
\* write for it, after the change of the persisted records and before the
\* cache is invalidated.
C14_StoreThenLogThenInvalidate ==
    (lastAction.action \in MutatingActions /\ lastAction.stored) =>
        LET s == lastAction.steps
        IN  \E j \in 1..Len(s) :
                /\ s[j] = "log"
                /\ \E i \in 1..(j - 1) : s[i] = "store"
                /\ \A k \in 1..Len(s) : s[k] \in {"cache", "reload"} => k > j

\* C15: the audit table only grows: every step keeps each row it held,
\* unchanged and in place; no operation open to an actor, the owner
\* included, updates or deletes a row.
C15_LogOnlyGrows ==
    [][/\ Len(activity_logs') >= Len(activity_logs)
       /\ \A i \in 1..Len(activity_logs) : activity_logs'[i] = activity_logs[i]]_vars

\* the owner sent a DELETE for a row of the full audit table
C15_OwnerTriedToDeleteRow ==
    /\ lastAction.action = "store_delete_log"
    /\ lastAction.actor = "o1"
    /\ Len(activity_logs) >= 2

\* ---------------------------------------------------------------------------
\* Moderation columns
\* ---------------------------------------------------------------------------

\* C16: a successful approve leaves the tool approved, approved_by the
\* moderator, approved_at set and rejection_reason cleared, whatever the tool
\* was before; hence no approved tool carries a rejection_reason.
C16_ApprovedHasNoRejectionReason ==
    /\ (/\ lastModeration.op = "handleApprove"
        /\ lastModeration.ok
        /\ lastModeration.tool \in DOMAIN ai_tools)
           => LET row == ai_tools[lastModeration.tool]
              IN  /\ row.status = "approved"
                  /\ row.approved_by = lastModeration.actor
                  /\ row.approved_at # NULL
                  /\ row.rejection_reason = NULL
    /\ \A t \in DOMAIN ai_tools :
          ai_tools[t].status = "approved" => ai_tools[t].rejection_reason = NULL

\* C17: a successful reject leaves the tool rejected, approved_by the
\* moderator, approved_at set and rejection_reason the given reason, or
\* the fixed text when none was given; hence no rejected tool has an empty or
\* unset rejection_reason.
C17_RejectedHasRejectionReason ==
    /\ (/\ lastModeration.op = "confirmReject"
        /\ lastModeration.ok
        /\ lastModeration.tool \in DOMAIN ai_tools)
           => LET row == ai_tools[lastModeration.tool]
              IN  /\ row.status = "rejected"
                  /\ row.approved_by = lastModeration.actor
                  /\ row.approved_at # NULL
                  /\ row.rejection_reason
                        \in (ReasonInputs \ {""}) \cup {DefaultRejectionReason}
    /\ \A t \in DOMAIN ai_tools :
          ai_tools[t].status = "rejected" =>
              /\ ai_tools[t].rejection_reason # NULL
              /\ ai_tools[t].rejection_reason # ""

\* C18: in every reachable state a pending tool has approved_by, approved_at
\* and rejection_reason unset, and an approved or rejected tool has approved_by
\* and approved_at set.
C18_ModerationColumnsMatchStatus ==
    \A t \in DOMAIN ai_tools :
        LET row == ai_tools[t]
        IN  /\ row.status = "pending" =>
                  /\ row.approved_by = NULL
                  /\ row.approved_at = NULL
                  /\ row.rejection_reason = NULL
            /\ row.status \in {"approved", "rejected"} =>
                  /\ row.approved_by # NULL
                  /\ row.approved_at # NULL

\* C19: an edit leaves status, approved_by, approved_at, rejection_reason and
\* created_by of the tool as they were, whatever its status: every step that
\* rewrites the edited columns of a tool keeps these five.
C19_EditKeepsModerationColumns ==
    [][\A t \in DOMAIN ai_tools \cap DOMAIN ai_tools' :
          ai_tools'[t].name # ai_tools[t].name =>
              /\ ai_tools'[t].status = ai_tools[t].status
              /\ ai_tools'[t].approved_by = ai_tools[t].approved_by
              /\ ai_tools'[t].approved_at = ai_tools[t].approved_at
              /\ ai_tools'[t].rejection_reason = ai_tools[t].rejection_reason
              /\ ai_tools'[t].created_by = ai_tools[t].created_by]_vars

\* the creator's edit was the last recorded action and it renamed a tool the
\* owner had rejected with a reason
C19_EditedAfterModeration ==
    /\ lastAction.action = "update_tool"
    /\ lastAction.actor = "a"
    /\ lastAction.stored
    /\ DOMAIN ai_tools # {}
    /\ \A t \in DOMAIN ai_tools :
          /\ ai_tools[t].name = "Bar"
          /\ ai_tools[t].status = "rejected"
          /\ ai_tools[t].approved_by = "o1"
          /\ ai_tools[t].rejection_reason = "duplicate"
          /\ ai_tools[t].created_by = "a"

\* C20: every tool enters the table with status pending and created_by the
\* actor; a create that names another user as created_by or a status other
\* than pending is rejected and creates no row.
C20_ToolsEnterPendingAndOwn ==
    [][/\ \A t \in DOMAIN ai_tools' \ DOMAIN ai_tools :
            /\ ai_tools'[t].status = "pending"
            /\ ai_tools'[t].created_by = lastAction'.actor
       /\ (/\ lastAction'.action = "insert_tool"
           /\ \/ lastAction'.request.created_by # lastAction'.actor
              \/ lastAction'.request.status # "pending")
              => /\ ~lastAction'.accepted
                 /\ ai_tools' = ai_tools]_vars

\* member a asked the endpoint for a row of their own that is already
\* approved, and the table is still empty
C20_ApprovedInsertRefused ==
    /\ lastAction.action = "insert_tool"
    /\ lastAction.actor = "a"
    /\ lastAction.request = [created_by |-> "a", status |-> "approved"]
    /\ ~lastAction.accepted
    /\ ai_tools = << >>
    /\ nextToolId = 1

\* ---------------------------------------------------------------------------
\* Role tags
\* ---------------------------------------------------------------------------

\* C21: when an edit that submitted role set R has completed, the roles stored
\* for the tool are exactly R (tool_roles is a set of (tool, role) pairs, so
\* no pair is stored twice).
C21_EditStoresExactlySubmittedRoles ==
    [][\A uid \in UserIds :
          (/\ inflight[uid].op = "insert_roles"
           /\ inflight'[uid] = NoAwait
           /\ inflight[uid].tool \in DOMAIN ai_tools')
              => RolesOf(tool_roles', inflight[uid].tool) = inflight[uid].roles]_vars

\* C26: role replacement is all-or-nothing: once no edit of a tool is between
\* its delete and its insert, the tool holds the role set it had before the
\* edits or the set one of them submitted.
C26_RoleReplacementAllOrNothing ==
    (\A u \in UserIds : inflight[u].op # "insert_roles") =>
        \A t \in DOMAIN roleSets \cap DOMAIN ai_tools :
            RolesOf(tool_roles, t) \in roleSets[t]

\* ---------------------------------------------------------------------------
\* Ratings and comments
\* ---------------------------------------------------------------------------

\* C22: every stored rating is in 1..5, and a rating request with a value
\* outside 1..5 writes nothing and leaves the stored ratings as they were.
C22_RatingsWithinOneToFive ==
    [][/\ \A i \in 1..Len(tool_ratings') : tool_ratings'[i].rating \in 1..5
       /\ (lastRating' # lastRating /\ lastRating'.rating \notin 1..5) =>
              /\ ~lastRating'.ok
              /\ tool_ratings' = tool_ratings]_vars

\* member b sent six stars for a tool that already holds a's rating; the
\* store refused and a's row is the only one
C22_SixStarsRefused ==
    /\ lastRating.actor = "b"
    /\ lastRating.rating = 6
    /\ ~lastRating.ok
    /\ Len(tool_ratings) = 1
    /\ tool_ratings[1].user_id = "a"
    /\ tool_ratings[1].rating = 3

C25_LoginEntryIffPasswordAccepted ==
    [][/\ (session = NONE /\ lastAction'.action = "login") =>
            LET email == lastAction'.actor
                s == lastAction'.steps
            IN  IF lastAction'.accepted
                THEN /\ \E i \in 1..Len(s) : s[i] = "log"
                     /\ (lastAction'.logOk /\ Len(activity_logs) < MaxLog) =>
                            /\ Len(activity_logs') = Len(activity_logs) + 1
                            /\ activity_logs'[Len(activity_logs')].action = "login"
                            /\ activity_logs'[Len(activity_logs')].user_id = email
                     /\ ~TwoFactorEnabled(email) =>
                            /\ session' = email
                            /\ \A i \in (Len(activity_logs) + 1)..Len(activity_logs') :
                                   ~activity_logs'[i].has_2fa
                ELSE /\ session' = NONE
                     /\ activity_logs' = activity_logs
                     /\ s = <<"error">>
       /\ (/\ Len(activity_logs') > Len(activity_logs)
           /\ activity_logs'[Len(activity_logs')].action = "login") =>
            /\ session = NONE
            /\ lastAction'.action = "login"
            /\ lastAction'.accepted]_vars

\* the owner, who has no second factor, is signed in and the one login row
\* is theirs, with has_2fa = false
C25_OwnerLoginLogged ==
    /\ session = "o1"
    /\ lastAction.action = "login"
    /\ lastAction.actor = "o1"
    /\ lastAction.accepted
    /\ Len(activity_logs) = 1
    /\ activity_logs[1].user_id = "o1"
    /\ activity_logs[1].action = "login"
    /\ ~activity_logs[1].has_2fa

\* C27: no write the store accepts from a user changes that user's own role:
\* member a, acting alone, never holds role owner (and every other profile
\* keeps its role as well).
C27_OwnRoleNeverChanges ==
    /\ profiles["a"].role = "backend"
    /\ profiles["o1"].role = "owner"

\* C28: a verification yields a session or a usable credential for an email
\* only if the password step for that email succeeded earlier in the same
\* login attempt.
C28_VerifyNeedsAcceptedPassword ==
    (lastAuth.op \in {"handleTwoFactorSubmit", "serveVerify2fa"} /\ lastAuth.ok)
        => lastAuth.passwordStep = lastAuth.email

\* C29: a successful verification leaves the account's stored password as it
\* was, so the password that authenticated before still authenticates.
C29_VerifyKeepsStoredPassword ==
    (lastAuth.op \in {"handleTwoFactorSubmit", "serveVerify2fa"} /\ lastAuth.ok)
        => /\ authPassword[lastAuth.email] = lastAuth.passwordBefore
           /\ SignInWithPasswordOk(lastAuth.email, lastAuth.passwordBefore)

\* C30: once signOut has completed, the cache of the tab holds no entry
\* fetched during the session that signed out, also when a fetch begun in
\* that session resolves after the cache was cleared.
C30_SignedOutTabCachesNothing ==
    \A uid \in DOMAIN cache : session # uid => cache[uid] = NoEntries

====
